---- MODULE Spec2Model ----
(***************************************************************************)
(* Model of the zo-market-maker core: the PnL / risk ledger (PnlTracker),  *)
(* the order reconciler (updateQuotes / executeAtomic) and the market      *)
(* maker loop (MarketMaker: ticks, fills, order syncs, cancel-all,         *)
(* shutdown) running against a venue.                                      *)
(*                                                                         *)
(* The specifications share the variables:                                 *)
(*   SpecPnl     the ledger alone, driven by fills, getState, the UTC clock *)
(*   SpecRec     updateQuotes as a function, applied twice to drawn inputs *)
(*   SpecMM      the event loop with its suspension points                 *)
(*   SpecLed     the position ledger and the PnL ledger of a MarketMaker   *)
(*               under ticks, fills, the venue's drift and position syncs  *)
(*   SpecLedFair the PnL ledger's halt under ticks, fills, the status task *)
(*               and the clock, with weak fairness of status and ticks     *)
(*   SpecQuoter  EnhancedQuoter.getQuotes and the margin fallback, tick by *)
(*               tick                                                      *)
(*   SpecAtomic  one tick's updateQuotes call chunk by chunk, the venue    *)
(*               answering each chunk with a result or an error            *)
(*   SpecThrottle the throttle between the price feed and the tick, with   *)
(*               weak fairness of its timer and of the end of a tick       *)
(*   SpecFair    the offset-median fair price calculator                   *)
(*   SpecVol     the volatility tracker                                    *)
(*   SpecCache   the writers of the order cache (ticks, fills, order sync, *)
(*               cancel-all) with one quote per side                       *)
(*   SpecSync    the position sync loop and the order sync with their      *)
(*               retries                                                   *)
(*   SpecOverlap order syncs that overlap                                  *)
(* A specification holds the variables it does not use at an idle value;   *)
(* rec, mm, led and qt each serve more than one specification.             *)
(*                                                                         *)
(* Numbers.  The ledger computes in IEEE doubles.  The model computes in   *)
(* exact rationals <<n, d>> (d > 0, lowest terms), so a property confirmed *)
(* here is a property of the ledger's formulas, not of their rounding.     *)
(* Prices are whole USD, sizes whole lots.                                 *)
(***************************************************************************)
EXTENDS Integers, Sequences, FiniteSets, TLC

VARIABLES
    \* ---- PnlTracker (src/unnamed/part_002:308-322) ----
    pnl,            \* the ledger's private fields, a record
    today,          \* the UTC date todayUtc() returns, as a day number
    \* ---- what an observer of the run has seen (history, not program state) ----
    obs,
    \* ---- reconciler as a function (SpecRec) ----
    rec,            \* [phase, current, desired, first, second]
    \* ---- MarketMaker and venue (SpecMM) ----
    mm,             \* the event loop's state, a record
    \* ---- MarketMaker's two position ledgers against the venue (SpecLed) ----
    led,            \* PositionTracker, venue position, position sync, ticks
    \* ---- EnhancedQuoter and the margin fallback (SpecQuoter) ----
    qt              \* quoter configuration, fallback state, last tick's quotes

vars == <<pnl, today, obs, rec, mm, led, qt>>

----------------------------------------------------------------------------
(* Bounds of the model *)

\* fills applied to the ledger in one behaviour of SpecPnl
MaxFills == 3
\* UTC dates 0..MaxDay
MaxDay == 1

\* prices (USD) and sizes (lots) fills, fair prices and quotes are drawn from
Prices == {1, 3}
Sizes == {1, 2}
\* cached orders and desired quotes handed to updateQuotes in SpecRec
MaxCache == 3
MaxDesired == 2
\* order ids the venue hands out in one behaviour of SpecMM
MaxOrderId == 2
\* executeUpdate invocations, cancelOrdersAsync calls and order syncs that can
\* be suspended at the same time in SpecMM
MaxInvocations == 2
MaxCancelAlls == 1
MaxSyncs == 1
\* positions a seed or a server sync may report
ServerPositions == {-1, 2}

(* RiskConfig of the run (src/src/bots/mm/configs.ts:44-49): the drawdown and *)
(* daily-loss limits of SMALL_ACCOUNT_RISK, and a position limit small enough *)
(* for a few fills to reach it.                                               *)
maxDrawdownUsd == 5
maxPositionUsd == 6
dailyLossLimitUsd == 3

----------------------------------------------------------------------------
(* Exact rationals *)

Abs(x) == IF x < 0 THEN -x ELSE x

\* RAdd, RMul and RMax bind their arguments to their values (u \in {x})
\* before using them, so that an argument that is itself a long expression is
\* evaluated once, also where TLC evaluates ENABLED for a fairness condition.
RECURSIVE GCD(_, _)
GCD(a, b) == IF b = 0 THEN a ELSE GCD(b, a % b)

RNorm(n, d) ==
    LET g == GCD(Abs(n), d)
    IN  IF n < 0 THEN <<-(Abs(n) \div g), d \div g>> ELSE <<n \div g, d \div g>>

R(n) == <<n, 1>>
\* the sums and products are formed over the reduced denominators so that
\* the intermediate integers stay small
RAdd(x, y) ==
    CHOOSE r \in
      { LET g == GCD(u[2], v[2])
        IN  RNorm(u[1] * (v[2] \div g) + v[1] * (u[2] \div g), (u[2] \div g) * v[2]) :
        u \in {x}, v \in {y} } : TRUE
RNeg(x) == <<-x[1], x[2]>>
RSub(x, y) == RAdd(x, RNeg(y))
RMul(x, y) ==
    CHOOSE r \in
      { LET g1 == GCD(Abs(u[1]), v[2])
            g2 == GCD(Abs(v[1]), u[2])
        IN  RNorm((u[1] \div g1) * (v[1] \div g2), (u[2] \div g2) * (v[2] \div g1)) :
        u \in {x}, v \in {y} } : TRUE
\* x / n for a whole n > 0
RDivInt(x, n) == RMul(x, <<1, n>>)
RLt(x, y) ==
    LET g == GCD(x[2], y[2]) IN x[1] * (y[2] \div g) < y[1] * (x[2] \div g)
RLe(x, y) ==
    LET g == GCD(x[2], y[2]) IN x[1] * (y[2] \div g) <= y[1] * (x[2] \div g)
RMax(x, y) == CHOOSE r \in {IF RLt(u, v) THEN v ELSE u : u \in {x}, v \in {y}} : TRUE

----------------------------------------------------------------------------
(* PnlTracker *)

NoReason == "null"
MaxDrawdownReason == "Max drawdown breached"
MaxPositionReason == "Max position breached"
DailyLossReason == "Daily loss limit"

\* field initialisers and constructor.  buyCount, sellCount and volumeUsd are
\* statistics that no decision of the ledger reads; the model leaves them out.
PnlInit(day) ==
    [ positionBase |-> 0, costBasis |-> R(0), realizedPnl |-> R(0),
      peakPnl |-> R(0), dailyPnl |-> R(0), dailyStartDate |-> day,
      tradeCount |-> 0, winCount |-> 0, lossCount |-> 0,
      shouldHalt |-> FALSE, haltReason |-> NoReason ]

getAvgEntryPrice(p) ==
    IF Abs(p.positionBase) = 0 THEN R(0)
    ELSE RDivInt(p.costBasis, Abs(p.positionBase))

calcUnrealizedPnl(p, fairPrice) ==
    IF Abs(p.positionBase) = 0 THEN R(0)
    ELSE IF p.positionBase > 0
         THEN RMul(R(p.positionBase), RSub(R(fairPrice), getAvgEntryPrice(p)))
         ELSE RMul(R(Abs(p.positionBase)), RSub(getAvgEntryPrice(p), R(fairPrice)))

\* the haltReason test of checkDayRollover: a substring test on the reason
IsDailyLossReason(reason) == reason = DailyLossReason

\* a rollover that restarts the daily fields and leaves a daily-loss halt standing
checkDayRollover_KeepsHalt(p, day) ==
    IF day # p.dailyStartDate
    THEN [p EXCEPT !.dailyPnl = R(0), !.dailyStartDate = day]
    ELSE p

checkDayRollover(p, day) ==
    IF day # p.dailyStartDate
    THEN LET q == [p EXCEPT !.dailyPnl = R(0), !.dailyStartDate = day]
         IN  IF IsDailyLossReason(p.haltReason)
             THEN [q EXCEPT !.shouldHalt = FALSE, !.haltReason = NoReason]
             ELSE q
    ELSE p

checkRiskLimits(p, currentPrice) ==
    LET unrealized == calcUnrealizedPnl(p, currentPrice)
        totalPnl == RAdd(p.realizedPnl, unrealized)
        q == [p EXCEPT !.peakPnl = RMax(p.peakPnl, totalPnl)]
        drawdown == RMax(R(0), RSub(q.peakPnl, totalPnl))
        posUsd == Abs(q.positionBase * currentPrice)
        dailyTotal == RAdd(q.dailyPnl, unrealized)
    IN  IF RLe(R(maxDrawdownUsd), drawdown)
        THEN [q EXCEPT !.shouldHalt = TRUE, !.haltReason = MaxDrawdownReason]
        ELSE IF posUsd >= maxPositionUsd
        THEN [q EXCEPT !.shouldHalt = TRUE, !.haltReason = MaxPositionReason]
        ELSE IF RLe(dailyTotal, R(-dailyLossLimitUsd))
        THEN [q EXCEPT !.shouldHalt = TRUE, !.haltReason = DailyLossReason]
        ELSE q

\* a seed that books the position at no cost
initPosition_NoCost(p, positionBase, entryPrice) ==
    [p EXCEPT !.positionBase = positionBase, !.costBasis = R(0)]

initPosition(p, positionBase, entryPrice) ==
    [p EXCEPT !.positionBase = positionBase,
              !.costBasis = R(Abs(positionBase) * entryPrice)]

syncPosition(p, serverPositionBase, fairPrice) ==
    IF p.positionBase # serverPositionBase
    THEN [p EXCEPT !.positionBase = serverPositionBase,
                   !.costBasis = R(Abs(serverPositionBase) * fairPrice)]
    ELSE p

resetHalt(p) == [p EXCEPT !.shouldHalt = FALSE, !.haltReason = NoReason]

isOpening(p, side) ==
    \/ side = "buy" /\ p.positionBase >= 0
    \/ side = "sell" /\ p.positionBase <= 0

\* closingPnl with the long formula used for a short position too
closingPnl_LongFormula(positionBase, closingSize, price, avgEntry) ==
    RMul(R(closingSize), RSub(R(price), avgEntry))

\* realized PnL of the closed part of a reducing fill
closingPnl(positionBase, closingSize, price, avgEntry) ==
    IF positionBase > 0
    THEN RMul(R(closingSize), RSub(R(price), avgEntry))
    ELSE RMul(R(closingSize), RSub(avgEntry, R(price)))

\* closeAndReopen with the overshoot booked at the old average entry price
closeAndReopen_RemainderAtAvgEntry(p, side, price, size) ==
    LET avgEntry == getAvgEntryPrice(p)
        closingSize == IF size < Abs(p.positionBase) THEN size ELSE Abs(p.positionBase)
        remainingSize == size - closingSize
        pos1 == IF p.positionBase > 0 THEN p.positionBase - closingSize
                                      ELSE p.positionBase + closingSize
        pos2 == IF remainingSize > 0
                THEN (IF side = "buy" THEN pos1 + remainingSize ELSE pos1 - remainingSize)
                ELSE pos1
    IN  [p EXCEPT !.positionBase = pos2, !.costBasis = RMul(R(Abs(pos2)), avgEntry)]

\* position and cost basis after a reducing fill, the overshoot included
closeAndReopen(p, side, price, size) ==
    LET avgEntry == getAvgEntryPrice(p)
        closingSize == IF size < Abs(p.positionBase) THEN size ELSE Abs(p.positionBase)
        remainingSize == size - closingSize
        pos1 == IF p.positionBase > 0 THEN p.positionBase - closingSize
                                      ELSE p.positionBase + closingSize
        cost1 == RMul(R(Abs(pos1)), avgEntry)
        pos2 == IF remainingSize > 0
                THEN (IF side = "buy" THEN pos1 + remainingSize ELSE pos1 - remainingSize)
                ELSE pos1
        cost2 == IF remainingSize > 0 THEN R(Abs(pos2) * price) ELSE cost1
    IN  [p EXCEPT !.positionBase = pos2, !.costBasis = cost2]

applyFill(p0, day, side, price, size) ==
    LET p == checkDayRollover(p0, day)
        counted == [p EXCEPT !.tradeCount = @ + 1]
        avgEntry == getAvgEntryPrice(p)
        closingSize == IF size < Abs(p.positionBase) THEN size ELSE Abs(p.positionBase)
        fillRealizedPnl == closingPnl(p.positionBase, closingSize, price, avgEntry)
        opened == [counted EXCEPT
                     !.costBasis = RAdd(@, R(size * price)),
                     !.positionBase = IF side = "buy" THEN @ + size ELSE @ - size]
        moved == closeAndReopen(counted, side, price, size)
        closed == [moved EXCEPT
                     !.realizedPnl = RAdd(@, fillRealizedPnl),
                     !.dailyPnl = RAdd(@, fillRealizedPnl),
                     !.winCount = IF RLt(R(0), fillRealizedPnl) THEN @ + 1 ELSE @,
                     !.lossCount = IF RLt(fillRealizedPnl, R(0)) THEN @ + 1 ELSE @]
    IN  checkRiskLimits(IF isOpening(p, side) THEN opened ELSE closed, price)

\* getState without the rollover check
getState_NoRollover(p0, day, fairPrice) ==
    [p0 EXCEPT !.peakPnl =
        RMax(p0.peakPnl, RAdd(p0.realizedPnl, calcUnrealizedPnl(p0, fairPrice)))]

\* getState that reports the drawdown and leaves the stored peak alone
getState_PeakNotStored(p0, day, fairPrice) == checkDayRollover(p0, day)

\* the ledger after getState(fairPrice): rollover check and peak update
getState(p0, day, fairPrice) ==
    LET p == checkDayRollover(p0, day)
        totalPnl == RAdd(p.realizedPnl, calcUnrealizedPnl(p, fairPrice))
    IN  [p EXCEPT !.peakPnl = RMax(p.peakPnl, totalPnl)]

\* fields of the PnlState that getState(fairPrice) returns, read off the ledger
totalPnlAt(p, fairPrice) == RAdd(p.realizedPnl, calcUnrealizedPnl(p, fairPrice))
drawdownAt(p, fairPrice) == RMax(R(0), RSub(p.peakPnl, totalPnlAt(p, fairPrice)))

----------------------------------------------------------------------------
(* Order reconciler: updateQuotes, executeAtomic, extractPlacedOrders *)

\* A quote is [side, price, size]; a cached order is [orderId, side, price, size];
\* an action is [kind |-> "cancel", orderId] or [kind |-> "place", side, price, size].

MAX_ATOMIC_ACTIONS == 4

Quote(side, price, size) == [side |-> side, price |-> price, size |-> size]

Range(seq) == {seq[i] : i \in 1..Len(seq)}
MinOf(S) == CHOOSE x \in S : \A y \in S : x <= y

\* orderMatchesQuote with the size comparison left out
orderMatchesQuote_NoSize(order, quote) ==
    order.side = quote.side /\ order.price = quote.price

orderMatchesQuote(order, quote) ==
    /\ order.side = quote.side
    /\ order.price = quote.price
    /\ order.size = quote.size

buildPlaceAction(quote) ==
    [kind |-> "place", side |-> quote.side, price |-> quote.price, size |-> quote.size]

buildCancelAction(orderId) == [kind |-> "cancel", orderId |-> orderId]

SeqsUpTo(S, n) == UNION {[1..k -> S] : k \in 0..n}

MapSeq(seq, Op(_)) == [i \in 1..Len(seq) |-> Op(seq[i])]

\* currentOrders.find(o => orderMatchesQuote(o, quote)): the index of the first
\* match, 0 when there is none
findMatch(currentOrders, quote) ==
    LET hits == {i \in 1..Len(currentOrders) : orderMatchesQuote(currentOrders[i], quote)}
    IN  IF hits = {} THEN 0 ELSE MinOf(hits)

\* the loop over newQuotes: the matching order of each quote that has one
RECURSIVE keptOrdersOf(_, _)
keptOrdersOf(currentOrders, newQuotes) ==
    IF newQuotes = <<>> THEN <<>>
    ELSE LET i == findMatch(currentOrders, Head(newQuotes))
         IN  (IF i = 0 THEN <<>> ELSE <<currentOrders[i]>>)
             \o keptOrdersOf(currentOrders, Tail(newQuotes))

quotesToPlaceOf(currentOrders, newQuotes) ==
    LET unmatched(q) == findMatch(currentOrders, q) = 0
    IN  SelectSeq(newQuotes, unmatched)

\* the loop over currentOrders: those that keptOrders does not include
ordersToCancelOf(currentOrders, keptOrders) ==
    LET dropped(o) == o \notin Range(keptOrders)
    IN  SelectSeq(currentOrders, dropped)

\* [...cancelActions, ...placeActions]
actionsOf(currentOrders, newQuotes) ==
    LET cancelOf(o) == buildCancelAction(o.orderId)
    IN  MapSeq(ordersToCancelOf(currentOrders, keptOrdersOf(currentOrders, newQuotes)),
               cancelOf)
        \o MapSeq(quotesToPlaceOf(currentOrders, newQuotes), buildPlaceAction)

\* a loop that submits the whole action list as one chunk
chunkOf_Whole(actions) == actions

\* actions.slice(0, MAX_ATOMIC_ACTIONS) and the actions after it
chunkOf(actions) ==
    SubSeq(actions, 1, IF Len(actions) < MAX_ATOMIC_ACTIONS THEN Len(actions)
                                                             ELSE MAX_ATOMIC_ACTIONS)
afterChunk(actions) == SubSeq(actions, Len(chunkOf(actions)) + 1, Len(actions))

IsPlace(a) == a.kind = "place"
IsCancel(a) == a.kind = "cancel"
placesOf(actions) == SelectSeq(actions, IsPlace)
cancelIdsOf(actions) == {a.orderId : a \in {b \in Range(actions) : IsCancel(b)}}

\* The venue's result of a chunk it accepted: one result per action, each
\* place posted under the next free order id.
atomicResultOk(chunk, nextId) ==
    [i \in 1..Len(chunk) |->
        IF IsPlace(chunk[i])
        THEN [case |-> "placeOrderResult",
              posted |-> nextId + Len(placesOf(SubSeq(chunk, 1, i - 1)))]
        ELSE [case |-> "cancelOrderResult", posted |-> 0]]

\* extractPlacedOrders: results with a posted order id are paired with the
\* chunk's place actions by a running index
RECURSIVE extractFrom(_, _, _)
extractFrom(results, placeActions, placeIdx) ==
    IF results = <<>> THEN <<>>
    ELSE LET r == Head(results)
             posted == r.case = "placeOrderResult" /\ r.posted # 0
         IN  IF posted
             THEN (IF placeIdx <= Len(placeActions)
                   THEN <<[orderId |-> r.posted,
                           side |-> placeActions[placeIdx].side,
                           price |-> placeActions[placeIdx].price,
                           size |-> placeActions[placeIdx].size]>>
                   ELSE <<>>)
                  \o extractFrom(Tail(results), placeActions, placeIdx + 1)
             ELSE extractFrom(Tail(results), placeActions, placeIdx)

extractPlacedOrders(results, actions) == extractFrom(results, placesOf(actions), 1)

\* executeAtomic when the venue accepts every chunk
RECURSIVE executeAtomicOk(_, _)
executeAtomicOk(actions, nextId) ==
    IF actions = <<>> THEN [orders |-> <<>>, chunks |-> <<>>]
    ELSE LET chunk == chunkOf(actions)
             placed == extractPlacedOrders(atomicResultOk(chunk, nextId), chunk)
             rest == executeAtomicOk(afterChunk(actions), nextId + Len(placesOf(chunk)))
         IN  [orders |-> placed \o rest.orders, chunks |-> <<chunk>> \o rest.chunks]

\* updateQuotes when the venue accepts every chunk; chunks are the atomic
\* submissions it made
updateQuotesOk(currentOrders, newQuotes, nextId) ==
    LET keptOrders == keptOrdersOf(currentOrders, newQuotes)
        actions == actionsOf(currentOrders, newQuotes)
        result == executeAtomicOk(actions, nextId)
    IN  IF actions = <<>>
        THEN [orders |-> currentOrders, hadChunkErrors |-> FALSE, chunks |-> <<>>]
        ELSE [orders |-> keptOrders \o result.orders, hadChunkErrors |-> FALSE,
              chunks |-> result.chunks]

----------------------------------------------------------------------------
(* What the observer records about the ledger *)

\* lastOp     the ledger operation that acted last: applyFill, getState or other
\* lastFair   the price that operation valued the position at (0: none)
\* onlyFills  the position was changed by fills alone, from flat
\* cashFlow   while onlyFills: sum over sells of price*size minus sum over
\*            buys of price*size
\* crossed    while onlyFills: some fill overshot the position through zero
\* seeded     initPosition has been called
\* synced     syncPosition has been called
\* haltCause  the reason with which the standing halt was set
ObsInit ==
    [ lastOp |-> "init", lastFair |-> 0, cashFlow |-> 0, onlyFills |-> TRUE,
      crossed |-> FALSE, seeded |-> FALSE, synced |-> FALSE, haltCause |-> NoReason ]

\* the cause of the halt standing in q, given the cause hc standing in p
CauseAfter(p, q, hc) ==
    IF ~q.shouldHalt THEN NoReason
    ELSE IF ~p.shouldHalt THEN q.haltReason
    ELSE hc

ObsFill(o, p, day, side, price, size) ==
    LET mid == checkDayRollover(p, day)
        q == applyFill(p, day, side, price, size)
    IN  [o EXCEPT !.lastOp = "applyFill", !.lastFair = price,
                  !.cashFlow = IF ~o.onlyFills THEN 0
                               ELSE IF side = "sell" THEN @ + price * size
                               ELSE @ - price * size,
                  !.crossed = o.onlyFills /\
                              (@ \/ (~isOpening(p, side) /\ size > Abs(p.positionBase))),
                  !.haltCause = CauseAfter(mid, q, CauseAfter(p, mid, @))]

ObsGetState(o, p, day, fairPrice) ==
    [o EXCEPT !.lastOp = "getState", !.lastFair = fairPrice,
              !.haltCause = CauseAfter(p, getState(p, day, fairPrice), @)]

----------------------------------------------------------------------------
(* SpecPnl: the ledger driven by its callers *)

RecIdle == [phase |-> "off"]
MMIdle == [phase |-> "off"]
LedIdle == [phase |-> "off"]
QtIdle == [phase |-> "off"]

PnlFill ==
    /\ pnl.tradeCount < MaxFills
    /\ \E side \in {"buy", "sell"}, price \in Prices, size \in Sizes :
          /\ pnl' = applyFill(pnl, today, side, price, size)
          /\ obs' = ObsFill(obs, pnl, today, side, price, size)
    /\ UNCHANGED <<today, rec, mm, led, qt>>

PnlGetState ==
    /\ \E fairPrice \in Prices :
          /\ pnl' = getState(pnl, today, fairPrice)
          /\ obs' = ObsGetState(obs, pnl, today, fairPrice)
    /\ UNCHANGED <<today, rec, mm, led, qt>>

\* the UTC date changes
PnlClock ==
    /\ today < MaxDay
    /\ today' = today + 1
    /\ obs' = [obs EXCEPT !.lastOp = "other", !.lastFair = 0]
    /\ UNCHANGED <<pnl, rec, mm, led, qt>>

\* manual reset; on a ledger that is not halted it changes nothing
PnlResetHalt ==
    /\ pnl.shouldHalt
    /\ pnl' = resetHalt(pnl)
    /\ obs' = [obs EXCEPT !.lastOp = "other", !.lastFair = 0, !.haltCause = NoReason]
    /\ UNCHANGED <<today, rec, mm, led, qt>>

PnlInitPosition ==
    /\ ~obs.seeded
    /\ \E positionBase \in ServerPositions, entryPrice \in Prices :
          pnl' = initPosition(pnl, positionBase, entryPrice)
    /\ obs' = [obs EXCEPT !.lastOp = "other", !.lastFair = 0, !.seeded = TRUE,
                          !.onlyFills = FALSE, !.cashFlow = 0, !.crossed = FALSE]
    /\ UNCHANGED <<today, rec, mm, led, qt>>

PnlSyncPosition ==
    /\ ~obs.synced
    /\ \E serverPositionBase \in ServerPositions, fairPrice \in Prices :
          pnl' = syncPosition(pnl, serverPositionBase, fairPrice)
    /\ obs' = [obs EXCEPT !.lastOp = "other", !.lastFair = 0, !.synced = TRUE,
                          !.onlyFills = FALSE, !.cashFlow = 0, !.crossed = FALSE]
    /\ UNCHANGED <<today, rec, mm, led, qt>>

InitPnl ==
    /\ pnl = PnlInit(0)
    /\ today = 0
    /\ obs = ObsInit
    /\ rec = RecIdle
    /\ mm = MMIdle
    /\ led = LedIdle
    /\ qt = QtIdle

NextPnl ==
    \/ PnlFill
    \/ PnlGetState
    \/ PnlClock
    \/ PnlResetHalt
    \/ PnlInitPosition
    \/ PnlSyncPosition

SpecPnl == InitPnl /\ [][NextPnl]_vars

----------------------------------------------------------------------------
(* SpecMM: the MarketMaker event loop against the venue.                    *)
(*                                                                          *)
(* The loop is single-threaded: every action below is one run-to-completion *)
(* stretch of a handler, from an event to the next await.  The suspension   *)
(* points are user.atomic(chunk) in executeAtomic and user.fetchInfo() in   *)
(* syncOrdersWithRetry.  A request is answered in two steps when the venue  *)
(* accepts it (the venue acts, later the caller resumes with the result)    *)
(* and in one step when it fails (a failure changes nothing on the venue).  *)
(*                                                                          *)
(* mm.venue          orders resting on the venue for this market            *)
(* mm.nextId         the next order id the venue hands out                  *)
(* mm.running        MarketMaker.isRunning                                  *)
(* mm.exited         process.exit(0) has run                                *)
(* mm.activeOrders   MarketMaker.activeOrders, the order cache              *)
(* mm.isUpdating, lastFairPrice, pnlSeeded, initialExchangePosition         *)
(* mm.baseSize       PositionTracker.baseSize                               *)
(* mm.calls          the suspended executeAtomic calls, by caller           *)
(* mm.syncs          the suspended syncOrdersWithRetry calls                *)
(* mm.acked          ids whose cancel a successful chunk result reported    *)
(*                   to its caller (history)                                *)
(* mm.dropped        some executeUpdate returned at the re-entrancy guard   *)
(*                   (history)                                              *)
(* mm.signalId       mm.nextId when the termination signal arrived, 0       *)
(*                   before (history)                                       *)

closeThresholdUsd == 4

\* what the quoter can hand to a tick
MMQuotes == {Quote("bid", 1, 2), Quote("bid", 3, 2), Quote("ask", 3, 2)}
MaxQuotes == 2

Ticks == {<<"tick", i>> : i \in 1..MaxInvocations}
CancelAlls == {<<"cancelAll", i>> : i \in 1..MaxCancelAlls}
ShutdownCall == <<"shutdown", 1>>
Callers == Ticks \cup CancelAlls \cup {ShutdownCall}
Syncs == 1..MaxSyncs

\* a caller that is not inside executeAtomic
IdleCall ==
    [pc |-> "idle", keptOrders |-> <<>>, actions |-> <<>>, allOrders |-> <<>>,
     hadChunkErrors |-> FALSE, result |-> <<>>]

\* delayMs of syncOrders, in ms
SYNC_DELAY_MS == 500

\* a backoff that grows by delayMs per attempt
backoffMs_Linear(delayMs, attempt) == delayMs * (attempt + 1)

\* const backoff = delayMs * 2 ** attempt
backoffMs(delayMs, attempt) == delayMs * 2^attempt

\* slept: the backoffs the call has awaited so far (history)
IdleSync == [pc |-> "idle", attempt |-> 0, orders |-> <<>>, slept |-> <<>>]

\* a caller entering executeAtomic(actions): its first chunk is submitted
SentCall(keptOrders, actions) ==
    [pc |-> "sent", keptOrders |-> keptOrders, actions |-> actions,
     allOrders |-> <<>>, hadChunkErrors |-> FALSE, result |-> <<>>]

IdleOf(S, m) == {c \in S : m.calls[c].pc = "idle"}
LowestIdle(S, m) == CHOOSE c \in IdleOf(S, m) : \A d \in IdleOf(S, m) : c[2] <= d[2]
IdleSyncs(m) == {k \in DOMAIN m.syncs : m.syncs[k].pc = "idle"}

\* the venue's open orders as fetchInfo lists them
RECURSIVE SeqOfOrders(_)
SeqOfOrders(S) ==
    IF S = {} THEN <<>>
    ELSE LET o == CHOOSE x \in S : \A y \in S : x.orderId <= y.orderId
         IN  <<o>> \o SeqOfOrders(S \ {o})

\* if (this.isUpdating) return
reentrancyGuard_Off(isUpdating) == FALSE

reentrancyGuard(isUpdating) == isUpdating

\* syncOrders / forceOrderSync: a syncOrdersWithRetry call starts and awaits
\* its first fetchInfo
forceOrderSync(m) ==
    LET k == MinOf(IdleSyncs(m))
    IN  [m EXCEPT !.syncs[k] = [IdleSync EXCEPT !.pc = "sent"]]

\* cancelOrdersAsync: nothing with an empty cache, else cancelOrders on the
\* cache as it is now
cancelOrdersAsync(m) ==
    IF m.activeOrders = <<>> THEN m
    ELSE LET cancelOf(o) == buildCancelAction(o.orderId)
         IN  [m EXCEPT !.calls[LowestIdle(CancelAlls, m)] =
                           SentCall(<<>>, MapSeq(m.activeOrders, cancelOf))]

PositionIsCloseMode(baseSize, fairPrice) == Abs(baseSize * fairPrice) >= closeThresholdUsd

\* the MarketMaker after start(): no order rests, the position is flat
MMInit ==
    [ phase |-> "on", venue |-> {}, nextId |-> 1,
      running |-> TRUE, exited |-> FALSE,
      activeOrders |-> <<>>, isUpdating |-> FALSE, lastFairPrice |-> 0,
      pnlSeeded |-> FALSE, initialExchangePosition |-> 0, baseSize |-> 0,
      calls |-> [c \in Callers |-> IdleCall],
      syncs |-> [k \in Syncs |-> IdleSync],
      acked |-> {}, dropped |-> FALSE, signalId |-> 0 ]

InitMM ==
    /\ pnl = PnlInit(0)
    /\ today = 0
    /\ obs = ObsInit
    /\ rec = RecIdle
    /\ led = LedIdle
    /\ qt = QtIdle
    /\ mm = MMInit

\* ---- executeUpdate ----

\* executeUpdate(fairPrice) up to its first await, with the quote set the
\* quoter returns.  It returns at the guard, at the halt check, on an empty
\* quote set and when updateQuotes finds nothing to do; otherwise it is
\* suspended in executeAtomic with its first chunk submitted.
executeUpdate(fairPrice, quotes) ==
    IF reentrancyGuard(mm.isUpdating)
    THEN /\ mm' = [mm EXCEPT !.dropped = TRUE]
         /\ UNCHANGED pnl
    ELSE LET seeded == IF ~mm.pnlSeeded
                       THEN initPosition(pnl, mm.initialExchangePosition, fairPrice)
                       ELSE pnl
             entered == [mm EXCEPT !.lastFairPrice = fairPrice, !.pnlSeeded = TRUE]
             actions == actionsOf(mm.activeOrders, quotes)
         IN  /\ pnl' = seeded
             /\ IF seeded.shouldHalt \/ quotes = <<>> \/ actions = <<>>
                THEN mm' = entered
                ELSE mm' = [entered EXCEPT
                        !.isUpdating = TRUE,
                        !.calls[LowestIdle(Ticks, mm)] =
                            SentCall(keptOrdersOf(mm.activeOrders, quotes), actions)]

\* a fair price arrives and the tick runs
ExecuteUpdate ==
    /\ mm.running
    /\ IdleOf(Ticks, mm) # {}
    /\ \E fairPrice \in Prices, quotes \in SeqsUpTo(MMQuotes, MaxQuotes) :
          /\ mm.nextId + Len(quotes) - 1 <= MaxOrderId
          /\ executeUpdate(fairPrice, quotes)
    /\ UNCHANGED <<today, obs, rec, led, qt>>

\* ---- the venue ----

\* the venue executes the chunk a caller submitted: every cancel hits a
\* resting order, every place is posted
VenueAccept(c) ==
    /\ mm.calls[c].pc = "sent"
    /\ LET chunk == chunkOf(mm.calls[c].actions)
           placed == extractPlacedOrders(atomicResultOk(chunk, mm.nextId), chunk)
       IN  /\ cancelIdsOf(chunk) \subseteq {o.orderId : o \in mm.venue}
           /\ mm' = [mm EXCEPT
                 !.venue = {o \in @ : o.orderId \notin cancelIdsOf(chunk)} \cup Range(placed),
                 !.nextId = @ + Len(placed),
                 !.calls[c].pc = "answered",
                 !.calls[c].result = atomicResultOk(chunk, mm.nextId)]
    /\ UNCHANGED <<pnl, today, obs, rec, led, qt>>

\* the errors user.atomic(chunk) can throw for this chunk
RecoveredErrors(chunk, venue) ==
    {"no reason"}
    \cup (IF placesOf(chunk) # <<>> THEN {"POST_ONLY"} ELSE {})
    \cup (IF cancelIdsOf(chunk) \subseteq {o.orderId : o \in venue} THEN {}
          ELSE {"ORDER_NOT_FOUND"})
RethrownErrors(chunk) ==
    {"other"} \cup (IF placesOf(chunk) # <<>> THEN {"margin"} ELSE {})

\* the loop of executeAtomic after a chunk: the next chunk is submitted, or
\* the loop is over
MoreChunks(call) == afterChunk(call.actions) # <<>>
NextChunk(call) ==
    [call EXCEPT !.pc = "sent", !.actions = afterChunk(call.actions), !.result = <<>>]

\* the try block of the loop after a chunk's result arrived
AfterResult(call) ==
    [call EXCEPT !.allOrders = @ \o extractPlacedOrders(call.result, chunkOf(call.actions))]
\* the catch block of the loop for a recovered error
AfterRecovered(call) == [call EXCEPT !.hadChunkErrors = TRUE]

\* executeUpdate after updateQuotes returned: the cache is replaced, a sync is
\* forced after chunk errors, the guard is released
TickReturn(m, c, call) ==
    LET done == [m EXCEPT !.activeOrders = call.keptOrders \o call.allOrders,
                          !.isUpdating = FALSE,
                          !.calls[c] = IdleCall]
    IN  IF call.hadChunkErrors THEN forceOrderSync(done) ELSE done

TickStep(c, call) ==
    IF MoreChunks(call)
    THEN mm' = [mm EXCEPT !.calls[c] = NextChunk(call)]
    ELSE /\ call.hadChunkErrors => IdleSyncs(mm) # {}
         /\ mm' = TickReturn(mm, c, call)

TickChunkOk(c) ==
    /\ ~mm.exited
    /\ mm.calls[c].pc = "answered"
    /\ LET acked == [mm EXCEPT !.acked = @ \cup cancelIdsOf(chunkOf(mm.calls[c].actions))]
       IN  IF MoreChunks(mm.calls[c])
           THEN mm' = [acked EXCEPT !.calls[c] = NextChunk(AfterResult(mm.calls[c]))]
           ELSE /\ mm.calls[c].hadChunkErrors => IdleSyncs(mm) # {}
                /\ mm' = TickReturn(acked, c, AfterResult(mm.calls[c]))
    /\ UNCHANGED <<pnl, today, obs, rec, led, qt>>

TickChunkRecovered(c) ==
    /\ ~mm.exited
    /\ mm.calls[c].pc = "sent"
    /\ RecoveredErrors(chunkOf(mm.calls[c].actions), mm.venue) # {}
    /\ TickStep(c, AfterRecovered(mm.calls[c]))
    /\ UNCHANGED <<pnl, today, obs, rec, led, qt>>

\* executeAtomic rethrows; the catch block of executeUpdate keeps the cache
\* and forces a sync unless the error is a margin error
TickChunkThrown(c) ==
    /\ ~mm.exited
    /\ mm.calls[c].pc = "sent"
    /\ \E err \in RethrownErrors(chunkOf(mm.calls[c].actions)) :
          LET done == [mm EXCEPT !.isUpdating = FALSE, !.calls[c] = IdleCall]
          IN  IF err = "margin"
              THEN mm' = done
              ELSE /\ IdleSyncs(mm) # {}
                   /\ mm' = forceOrderSync(done)
    /\ UNCHANGED <<pnl, today, obs, rec, led, qt>>

\* ---- order sync ----

\* the orderSyncInterval timer fires
SyncOrders ==
    /\ mm.running
    /\ IdleSyncs(mm) # {}
    /\ mm' = forceOrderSync(mm)
    /\ UNCHANGED <<pnl, today, obs, rec, led, qt>>

\* the venue answers fetchInfo with its open orders
VenueFetch(k) ==
    /\ mm.syncs[k].pc = "sent"
    /\ mm' = [mm EXCEPT !.syncs[k].pc = "answered",
                        !.syncs[k].orders = SeqOfOrders(mm.venue)]
    /\ UNCHANGED <<pnl, today, obs, rec, led, qt>>

\* syncOrdersWithRetry resumes with the fetched orders and replaces the cache
SyncApply(k) ==
    /\ ~mm.exited
    /\ mm.syncs[k].pc = "answered"
    /\ mm' = [mm EXCEPT !.activeOrders = mm.syncs[k].orders, !.syncs[k] = IdleSync]
    /\ UNCHANGED <<pnl, today, obs, rec, led, qt>>

SYNC_RETRIES == 3

\* fetchInfo throws: the call backs off and fetches again, or gives up after
\* the last attempt
SyncFetchFails(k) ==
    /\ ~mm.exited
    /\ mm.syncs[k].pc = "sent"
    /\ mm' = IF mm.syncs[k].attempt < SYNC_RETRIES
             THEN [mm EXCEPT !.syncs[k].attempt = @ + 1,
                             !.syncs[k].slept =
                                 Append(@, backoffMs(SYNC_DELAY_MS, mm.syncs[k].attempt))]
             ELSE [mm EXCEPT !.syncs[k] = IdleSync]
    /\ UNCHANGED <<pnl, today, obs, rec, led, qt>>

\* ---- fills ----

\* The venue fills a resting order and the account stream delivers the fill:
\* the onFill handler of setupEventHandlers.
OnFill ==
    /\ mm.running
    /\ IdleSyncs(mm) # {}
    /\ IdleOf(CancelAlls, mm) # {}
    /\ \E o \in mm.venue :
          LET side == IF o.side = "bid" THEN "buy" ELSE "sell"
              filled == [mm EXCEPT
                           !.venue = @ \ {o},
                           !.baseSize = IF o.side = "bid" THEN @ + o.size ELSE @ - o.size]
              synced == forceOrderSync(filled)
              fairPrice == IF mm.lastFairPrice # 0 THEN mm.lastFairPrice ELSE o.price
              pnlState == getState(applyFill(pnl, today, side, o.price, o.size),
                                   today, fairPrice)
          IN  /\ pnl' = pnlState
              /\ mm' = IF pnlState.shouldHalt
                          \/ PositionIsCloseMode(filled.baseSize, o.price)
                       THEN cancelOrdersAsync(synced)
                       ELSE synced
    /\ UNCHANGED <<today, obs, rec, led, qt>>

\* ---- cancelOrdersAsync ----

\* the .then / .catch of cancelOrdersAsync: both empty the cache
CancelAllSettled(m, c) == [m EXCEPT !.activeOrders = <<>>, !.calls[c] = IdleCall]

CancelAllChunkOk(c) ==
    /\ ~mm.exited
    /\ mm.calls[c].pc = "answered"
    /\ LET acked == [mm EXCEPT !.acked = @ \cup cancelIdsOf(chunkOf(mm.calls[c].actions))]
       IN  mm' = IF MoreChunks(mm.calls[c])
                 THEN [acked EXCEPT !.calls[c] = NextChunk(AfterResult(mm.calls[c]))]
                 ELSE CancelAllSettled(acked, c)
    /\ UNCHANGED <<pnl, today, obs, rec, led, qt>>

CancelAllChunkRecovered(c) ==
    /\ ~mm.exited
    /\ mm.calls[c].pc = "sent"
    /\ RecoveredErrors(chunkOf(mm.calls[c].actions), mm.venue) # {}
    /\ mm' = IF MoreChunks(mm.calls[c])
             THEN [mm EXCEPT !.calls[c] = NextChunk(AfterRecovered(mm.calls[c]))]
             ELSE CancelAllSettled(mm, c)
    /\ UNCHANGED <<pnl, today, obs, rec, led, qt>>

CancelAllChunkThrown(c) ==
    /\ ~mm.exited
    /\ mm.calls[c].pc = "sent"
    /\ mm' = CancelAllSettled(mm, c)
    /\ UNCHANGED <<pnl, today, obs, rec, led, qt>>

\* ---- status, snapshot, clock ----

\* logStatus / logSnapshot: getState at the last fair price
LogStatus ==
    /\ mm.running
    /\ mm.lastFairPrice # 0
    /\ pnl' = getState(pnl, today, mm.lastFairPrice)
    /\ UNCHANGED <<mm, today, obs, rec, led, qt>>

\* the UTC date changes
MMClock ==
    /\ ~mm.exited
    /\ today < MaxDay
    /\ today' = today + 1
    /\ UNCHANGED <<mm, pnl, obs, rec, led, qt>>

\* ---- shutdown ----

\* SIGINT / SIGTERM: shutdown() up to its await.  With an empty cache the
\* process exits at once.
Shutdown ==
    /\ mm.running
    /\ LET cancelOf(o) == buildCancelAction(o.orderId)
           stopped == [mm EXCEPT !.running = FALSE, !.signalId = mm.nextId]
       IN  /\ pnl' = IF mm.lastFairPrice # 0 THEN getState(pnl, today, mm.lastFairPrice)
                     ELSE pnl
           /\ mm' = IF mm.activeOrders = <<>>
                    THEN [stopped EXCEPT !.exited = TRUE]
                    ELSE [stopped EXCEPT !.calls[ShutdownCall] =
                              SentCall(<<>>, MapSeq(mm.activeOrders, cancelOf))]
    /\ UNCHANGED <<today, obs, rec, led, qt>>

ShutdownChunkOk ==
    /\ ~mm.exited
    /\ mm.calls[ShutdownCall].pc = "answered"
    /\ LET call == mm.calls[ShutdownCall]
           acked == [mm EXCEPT !.acked = @ \cup cancelIdsOf(chunkOf(call.actions))]
       IN  mm' = IF MoreChunks(call)
                 THEN [acked EXCEPT !.calls[ShutdownCall] = NextChunk(AfterResult(call))]
                 ELSE [acked EXCEPT !.activeOrders = <<>>, !.exited = TRUE,
                                    !.calls[ShutdownCall] = IdleCall]
    /\ UNCHANGED <<pnl, today, obs, rec, led, qt>>

ShutdownChunkRecovered ==
    /\ ~mm.exited
    /\ mm.calls[ShutdownCall].pc = "sent"
    /\ LET call == mm.calls[ShutdownCall]
       IN  /\ RecoveredErrors(chunkOf(call.actions), mm.venue) # {}
           /\ mm' = IF MoreChunks(call)
                    THEN [mm EXCEPT !.calls[ShutdownCall] = NextChunk(AfterRecovered(call))]
                    ELSE [mm EXCEPT !.activeOrders = <<>>, !.exited = TRUE,
                                    !.calls[ShutdownCall] = IdleCall]
    /\ UNCHANGED <<pnl, today, obs, rec, led, qt>>

\* cancelOrders rethrows: the catch block logs and the process exits
ShutdownChunkThrown ==
    /\ ~mm.exited
    /\ mm.calls[ShutdownCall].pc = "sent"
    /\ mm' = [mm EXCEPT !.exited = TRUE, !.calls[ShutdownCall] = IdleCall]
    /\ UNCHANGED <<pnl, today, obs, rec, led, qt>>

NextMM ==
    \/ ExecuteUpdate
    \/ \E c \in Callers : VenueAccept(c)
    \/ \E c \in Ticks : TickChunkOk(c)
    \/ \E c \in Ticks : TickChunkRecovered(c)
    \/ \E c \in Ticks : TickChunkThrown(c)
    \/ SyncOrders
    \/ \E k \in Syncs : VenueFetch(k)
    \/ \E k \in Syncs : SyncApply(k)
    \/ \E k \in Syncs : SyncFetchFails(k)
    \/ OnFill
    \/ \E c \in CancelAlls : CancelAllChunkOk(c)
    \/ \E c \in CancelAlls : CancelAllChunkRecovered(c)
    \/ \E c \in CancelAlls : CancelAllChunkThrown(c)
    \/ LogStatus
    \/ MMClock
    \/ Shutdown
    \/ ShutdownChunkOk
    \/ ShutdownChunkRecovered
    \/ ShutdownChunkThrown

SpecMM == InitMM /\ [][NextMM]_vars

----------------------------------------------------------------------------
(* Claims about the ledger, checked under SpecPnl *)

\* C7: once the ledger is halted because of max drawdown or max position,
\* shouldHalt stays true over every later fill, getState and date rollover
\* until resetHalt is called.
C7_HaltStickyUntilReset ==
    [][ ( /\ pnl.shouldHalt
          /\ obs.haltCause \in {MaxDrawdownReason, MaxPositionReason}
          /\ ~PnlResetHalt )
        => pnl'.shouldHalt ]_vars

\* C8: right after applyFill or getState(F), a drawdown peakPnl - totalPnl(F)
\* of at least maxDrawdownUsd means the ledger is halted with the max
\* drawdown reason.
C8_DrawdownHalts ==
    ( /\ obs.lastOp \in {"applyFill", "getState"}
      /\ RLe(R(maxDrawdownUsd), RSub(pnl.peakPnl, totalPnlAt(pnl, obs.lastFair))) )
    => (pnl.shouldHalt /\ pnl.haltReason = MaxDrawdownReason)

\* C10: from flat with realizedPnl = 0, after any sequence of fills that
\* leaves the position at 0, realizedPnl equals the sells' proceeds minus the
\* buys' cost.
C10_PnlConservation ==
    (obs.onlyFills /\ pnl.positionBase = 0) => pnl.realizedPnl = R(obs.cashFlow)

\* flat again after three fills, one of which overshot through zero
C10_Witness ==
    /\ obs.onlyFills /\ obs.crossed
    /\ pnl.positionBase = 0 /\ pnl.tradeCount = 3
    /\ pnl.realizedPnl # R(0)

\* C14: no operation of the ledger lowers peakPnl, and right after
\* getState(F) the peak is at least realizedPnl + unrealizedPnl(F), so the
\* reported drawdown max(0, peak - total(F)) is peak - total(F) itself and is
\* not negative.
C14_PeakAndDrawdown ==
    /\ [](obs.lastOp = "getState" =>
            /\ RLe(totalPnlAt(pnl, obs.lastFair), pnl.peakPnl)
            /\ drawdownAt(pnl, obs.lastFair) =
                  RSub(pnl.peakPnl, totalPnlAt(pnl, obs.lastFair))
            /\ RLe(R(0), drawdownAt(pnl, obs.lastFair)))
    /\ [][RLe(pnl.peakPnl, pnl'.peakPnl)]_vars

\* getState raised the peak to a profit that no fill had valued yet
C14_Witness ==
    /\ obs.lastOp = "getState"
    /\ RLt(R(0), pnl.peakPnl)
    /\ pnl.peakPnl = totalPnlAt(pnl, obs.lastFair)
    /\ pnl.realizedPnl = R(0)

\* the fields of the ledger that the claim says a rollover leaves alone
CumulativeOf(p) ==
    <<p.realizedPnl, p.peakPnl, p.positionBase, p.costBasis,
      p.tradeCount, p.winCount, p.lossCount>>

\* C15: the day rollover, run by the first applyFill or getState after the
\* UTC date differs from dailyStartDate, sets dailyPnl to 0 and dailyStartDate
\* to the new date, clears a halt whose reason is the daily loss limit and
\* leaves realizedPnl, peakPnl, the position and the counters as they were;
\* while the date equals dailyStartDate it changes nothing.  A getState step
\* shows the rolled ledger up to the peak it stores; a fill step shows it in
\* dailyPnl, which restarts from that fill's realized PnL.
C15_DayRollover ==
    /\ [](LET q == checkDayRollover(pnl, today)
          IN  IF today = pnl.dailyStartDate THEN q = pnl
              ELSE /\ q.dailyPnl = R(0)
                   /\ q.dailyStartDate = today
                   /\ IsDailyLossReason(pnl.haltReason) => ~q.shouldHalt
                   /\ CumulativeOf(q) = CumulativeOf(pnl))
    /\ [][obs'.lastOp = "getState" =>
            /\ pnl'.dailyStartDate = today
            /\ [pnl' EXCEPT !.peakPnl = pnl.peakPnl] =
                  (IF today = pnl.dailyStartDate THEN pnl
                   ELSE [pnl EXCEPT
                           !.dailyPnl = R(0), !.dailyStartDate = today,
                           !.shouldHalt = IF IsDailyLossReason(pnl.haltReason)
                                          THEN FALSE ELSE @,
                           !.haltReason = IF IsDailyLossReason(pnl.haltReason)
                                          THEN NoReason ELSE @])]_vars
    /\ [][obs'.lastOp = "applyFill" =>
            /\ pnl'.dailyStartDate = today
            /\ pnl'.dailyPnl =
                  RAdd(IF today = pnl.dailyStartDate THEN pnl.dailyPnl ELSE R(0),
                       RSub(pnl'.realizedPnl, pnl.realizedPnl))]_vars

\* getState on the day after a loss beyond the daily limit: the daily fields
\* are those of the new day, the halt is gone, the loss is still in realizedPnl
C15_Witness ==
    /\ obs.lastOp = "getState"
    /\ today = 1 /\ pnl.dailyStartDate = 1
    /\ pnl.dailyPnl = R(0)
    /\ ~pnl.shouldHalt
    /\ pnl.positionBase = 0
    /\ RLe(pnl.realizedPnl, R(-dailyLossLimitUsd))

----------------------------------------------------------------------------
(* SpecRec: updateQuotes applied to a drawn cache and desired set, then     *)
(* applied again to its own result with the same desired set                *)

\* quotes that differ pairwise in side alone, price alone or size alone
RecQuotes ==
    {Quote("bid", 1, 1), Quote("bid", 1, 2), Quote("ask", 1, 1), Quote("ask", 3, 1)}

\* a cache: resting orders with pairwise distinct order ids
CacheOf(quotes) ==
    [i \in 1..Len(quotes) |->
        [orderId |-> i, side |-> quotes[i].side, price |-> quotes[i].price,
         size |-> quotes[i].size]]

NoCall == [orders |-> <<>>, hadChunkErrors |-> FALSE, chunks |-> <<>>]

InitRec ==
    /\ pnl = PnlInit(0)
    /\ today = 0
    /\ obs = ObsInit
    /\ mm = MMIdle
    /\ led = LedIdle
    /\ qt = QtIdle
    /\ \E cq \in SeqsUpTo(RecQuotes, MaxCache), desired \in SeqsUpTo(RecQuotes, MaxDesired) :
          rec = [phase |-> "drawn", current |-> CacheOf(cq), desired |-> desired,
                 first |-> NoCall, second |-> NoCall]

RecFirstCall ==
    /\ rec.phase = "drawn"
    /\ rec' = [rec EXCEPT !.phase = "once",
                          !.first = updateQuotesOk(rec.current, rec.desired,
                                                   Len(rec.current) + 1)]
    /\ UNCHANGED <<pnl, today, obs, mm, led, qt>>

RecSecondCall ==
    /\ rec.phase = "once"
    /\ rec' = [rec EXCEPT !.phase = "twice",
                          !.second = updateQuotesOk(rec.first.orders, rec.desired,
                                                    Len(rec.current) + Len(rec.desired) + 1)]
    /\ UNCHANGED <<pnl, today, obs, mm, led, qt>>

NextRec ==
    \/ RecFirstCall
    \/ RecSecondCall

SpecRec == InitRec /\ [][NextRec]_vars

----------------------------------------------------------------------------
(* Claims about the reconciler, checked under SpecRec *)

RECURSIVE Flatten(_)
Flatten(chunks) == IF chunks = <<>> THEN <<>> ELSE Head(chunks) \o Flatten(Tail(chunks))

NoDuplicates(seq) == \A i, j \in 1..Len(seq) : i # j => seq[i] # seq[j]
OrderIds(orders) == [i \in 1..Len(orders) |-> orders[i].orderId]

\* decimal equality of an order and a quote on side, price and size
EqualsQuote(o, q) == o.side = q.side /\ o.price = q.price /\ o.size = q.size

\* C3: when updateQuotes(current, desired) succeeds and returns C1, a second
\* updateQuotes(C1, desired) submits no venue action and returns C1.
C3_Idempotent ==
    rec.phase = "twice" =>
        /\ rec.second.chunks = <<>>
        /\ rec.second.orders = rec.first.orders

\* C4: no two entries of the cache returned by updateQuotes have the same
\* order id, and no cached order is kept as the match of more than one
\* desired quote.
C4_UniqueOrderIds ==
    rec.phase \in {"once", "twice"} =>
        /\ NoDuplicates(OrderIds(rec.first.orders))
        /\ NoDuplicates(OrderIds(rec.second.orders))
        /\ NoDuplicates(keptOrdersOf(rec.current, rec.desired))

\* the cached orders that equal some desired quote
MatchedOrders(current, desired) ==
    {o \in Range(current) : \E q \in Range(desired) : EqualsQuote(o, q)}

\* the cached orders that are the first one in the cache to equal some
\* desired quote
FirstMatchedOrders(current, desired) ==
    {current[i] : i \in {k \in 1..Len(current) :
        \E q \in Range(desired) :
            /\ EqualsQuote(current[k], q)
            /\ \A j \in 1..(k - 1) : ~EqualsQuote(current[j], q)}}

\* the desired quotes, in order, that no cached order equals
UnmatchedQuotes(current, desired) ==
    LET unmatched(q) == \A o \in Range(current) : ~EqualsQuote(o, q)
    IN  SelectSeq(desired, unmatched)

\* one updateQuotes call keeps exactly the orders of keepSet, cancels every
\* other cached order, places exactly the unmatched desired quotes and
\* submits nothing else
DiffIs(current, desired, result, keepSet) ==
    LET submitted == Flatten(result.chunks)
    IN  /\ {o \in Range(result.orders) : o \in Range(current)} = keepSet
        /\ cancelIdsOf(submitted) = {o.orderId : o \in Range(current) \ keepSet}
        /\ placesOf(submitted) = MapSeq(UnmatchedQuotes(current, desired), buildPlaceAction)
        /\ Len(submitted) = Cardinality(Range(current) \ keepSet)
                             + Len(UnmatchedQuotes(current, desired))
        /\ submitted = SelectSeq(submitted, IsCancel) \o SelectSeq(submitted, IsPlace)

CacheIds(m) == {m.activeOrders[i].orderId : i \in 1..Len(m.activeOrders)}
InFlight(S) == {c \in S : mm.calls[c].pc # "idle"}

\* nothing is suspended: no executeAtomic call and no order sync is awaiting
\* the venue
Quiescent == InFlight(Callers) = {} /\ IdleSyncs(mm) = Syncs

\* C1: once a fill has set the risk halt and every call that was in flight
\* has finished, this bot has no order resting on the venue.
C1_HaltLeavesNoOrder ==
    (mm.running /\ pnl.shouldHalt /\ Quiescent) => mm.venue = {}

\* C2: an order id leaves the cache only in a step after the venue
\* acknowledged its cancel in a successful chunk, or in the step of an order
\* sync that replaces the cache with the venue's list.
C2_CacheFollowsAcks ==
    [][ \A id \in CacheIds(mm) \ CacheIds(mm') :
            id \in mm'.acked \/ (\E k \in Syncs : SyncApply(k)) ]_vars

\* C6: at most one tick is inside updateQuotes at any time, and an
\* executeUpdate that starts while isUpdating is true changes neither the
\* cache nor the venue and submits nothing.
C6_OneReconcile ==
    /\ [](Cardinality(InFlight(Ticks)) <= 1)
    /\ [][ (mm.isUpdating /\ ExecuteUpdate) =>
              /\ mm'.activeOrders = mm.activeOrders
              /\ mm'.calls = mm.calls
              /\ mm'.venue = mm.venue
              /\ mm'.nextId = mm.nextId
              /\ mm'.lastFairPrice = mm.lastFairPrice ]_vars

\* a tick was dropped at the guard and a reconcile is in flight
C6_Witness ==
    /\ mm.phase = "on"
    /\ mm.dropped
    /\ mm.isUpdating
    /\ Cardinality(InFlight(Ticks)) = 1

\* C9: when the process has exited after the termination signal, no order
\* that was placed before the signal is resting on the venue.
C9_ShutdownLeavesNoOrder ==
    mm.exited => ~(\E o \in mm.venue : o.orderId < mm.signalId)


(***************************************************************************)
(* SpecLed: the two position ledgers of a MarketMaker.                     *)
(*                                                                         *)
(* PositionTracker.baseSize and PnlTracker.positionBase both follow the    *)
(* venue's position for the market: fills update both, the position sync   *)
(* loop writes baseSize, executeUpdate seeds the PnL ledger and reads its   *)
(* halt flag, logStatus / logSnapshot read the PnL state.  Orders are left  *)
(* out: a fill is a resting order of this bot that the venue matched.       *)
(*                                                                         *)
(* led.serverPos     the venue's signed position for the market             *)
(* led.baseSize      PositionTracker.baseSize                               *)
(* led.sync          the syncFromServer call of the sync loop               *)
(* led.lastFairPrice, pnlSeeded, initialExchangePosition   MarketMaker      *)
(* led.last          what the last step did, if it was a fill, a completed  *)
(*                   or abandoned sync or the tick that seeded the PnL      *)
(*                   ledger (history)                                       *)
(* led.lastTick      whether the last executeUpdate of the current UTC date *)
(*                   got past the halt check (history)                      *)
(***************************************************************************)

\* fills in one behaviour of SpecLed
MaxLedFills == 2
\* position changes on the venue that reach the bot only through the sync
MaxDrifts == 1
\* the position found on the exchange at startup
InitialPositions == {0, 1}

\* Math.abs(this.baseSize - serverSize) > 0.0001
DriftThreshold == <<1, 10000>>
PosDrifted(baseSize, serverSize) == RLt(DriftThreshold, R(Abs(baseSize - serverSize)))

POS_SYNC_RETRIES == 3

\* PositionTracker.applyFill
positionApplyFill_Flat(baseSize, side, size) ==
    IF side = "bid" THEN (IF baseSize < 0 /\ size > -baseSize THEN 0 ELSE baseSize + size)
    ELSE (IF baseSize > 0 /\ size > baseSize THEN 0 ELSE baseSize - size)

positionApplyFill(baseSize, side, size) ==
    IF side = "bid" THEN baseSize + size ELSE baseSize - size

\* the body of syncFromServer after fetchInfo resolved
syncFromServerApply(baseSize, serverSize) ==
    IF PosDrifted(baseSize, serverSize) THEN serverSize ELSE baseSize

\* baseDelay of syncFromServer, in ms
POS_SYNC_BASE_DELAY == 500

\* slept: the backoffs the call has awaited so far (history)
LedSyncIdle ==
    [pc |-> "idle", attempt |-> 0, serverSize |-> 0, fillSeen |-> FALSE, slept |-> <<>>]

\* what a fill did to a position: opened or added, reduced or closed, or
\* closed it and opened the other side
FillKind(positionBase, fillSide, size) ==
    IF positionBase = 0 \/ (positionBase > 0) = (fillSide = "bid") THEN "open"
    ELSE IF size <= Abs(positionBase) THEN "reduce"
    ELSE "flip"

\* run() up to waitForever: startSync has adopted the exchange position and
\* syncInitialOrders stored it for the PnL seed
\* PositionTracker.getState(fairPrice)
positionGetState(baseSize, fairPrice) ==
    [ sizeBase |-> baseSize, sizeUsd |-> baseSize * fairPrice, isLong |-> baseSize > 0,
      isCloseMode |-> Abs(baseSize * fairPrice) >= closeThresholdUsd ]

\* a close mode that always quotes the ask
getAllowedSides_AskOnly(state) ==
    IF state.isCloseMode THEN <<"ask">> ELSE <<"bid", "ask">>

getAllowedSides(state) ==
    IF state.isCloseMode
    THEN (IF state.isLong THEN <<"ask">> ELSE <<"bid">>)
    ELSE <<"bid", "ask">>

getQuotingContext(baseSize, fairPrice) ==
    LET positionState == positionGetState(baseSize, fairPrice)
    IN  [ fairPrice |-> fairPrice, positionState |-> positionState,
          allowedSides |-> getAllowedSides(positionState) ]

\* no quoting context was built by the last step
NoCtx == [fairPrice |-> 0, positionState |-> positionGetState(0, 0), allowedSides |-> <<>>]

InitLed ==
    /\ pnl = PnlInit(0)
    /\ today = 0
    /\ obs = ObsInit
    /\ rec = RecIdle
    /\ mm = MMIdle
    /\ qt = QtIdle
    /\ \E p0 \in InitialPositions :
          led = [ phase |-> "on", serverPos |-> p0, baseSize |-> p0,
                  initialExchangePosition |-> p0, pnlSeeded |-> FALSE,
                  lastFairPrice |-> 0, sync |-> LedSyncIdle, drifts |-> 0,
                  last |-> "none", lastTick |-> "none", ctx |-> NoCtx ]

\* executeUpdate(fairPrice) as the ledgers see it: lastFairPrice is stored, the
\* PnL ledger is seeded at the first fair price, and isHalted() decides
\* whether the tick goes on to quote; the quoting context is the one that the
\* tick builds from the position ledger when no enhanced quoter is configured
LedTick ==
    /\ \E fairPrice \in Prices :
          LET seeded == IF ~led.pnlSeeded
                        THEN initPosition(pnl, led.initialExchangePosition, fairPrice)
                        ELSE pnl
          IN  /\ pnl' = seeded
              /\ led' = [led EXCEPT !.lastFairPrice = fairPrice, !.pnlSeeded = TRUE,
                                    !.last = IF ~led.pnlSeeded THEN "seeded" ELSE "none",
                                    !.lastTick = IF seeded.shouldHalt THEN "halted" ELSE "quoted",
                                    !.ctx = IF seeded.shouldHalt THEN NoCtx
                                            ELSE getQuotingContext(led.baseSize, fairPrice)]
    /\ UNCHANGED <<today, obs, rec, mm, qt>>

\* the venue matches a resting order of the bot and the fill handler runs;
\* setupEventHandlers arms the handler before syncInitialOrders reads the
\* position, so a fill can arrive before the first tick: on an order left
\* from an earlier session whose startup cancel has failed
LedFill ==
    /\ pnl.tradeCount < MaxLedFills
    /\ \E fillSide \in {"bid", "ask"}, price \in Prices, size \in Sizes :
          LET side == IF fillSide = "bid" THEN "buy" ELSE "sell"
              fairPrice == IF led.lastFairPrice # 0 THEN led.lastFairPrice ELSE price
          IN  /\ \E filled \in {applyFill(pnl, today, side, price, size)} :
                    pnl' = getState(filled, today, fairPrice)
              /\ led' = [led EXCEPT
                    !.serverPos = IF fillSide = "bid" THEN @ + size ELSE @ - size,
                    !.baseSize = positionApplyFill(@, fillSide, size),
                    !.sync.fillSeen = (led.sync.pc # "idle"),
                    !.ctx = NoCtx, !.last = FillKind(pnl.positionBase, fillSide, size)]
    /\ UNCHANGED <<today, obs, rec, mm, qt>>

\* the venue's position changes and no fill event for it reaches the handler
\* (a liquidation, a trade placed outside the bot, an event lost on the
\* account stream)
LedDrift ==
    /\ led.drifts < MaxDrifts
    /\ \E d \in {-1, 1} :
          led' = [led EXCEPT !.serverPos = @ + d, !.drifts = @ + 1, !.ctx = NoCtx,
                             !.last = "none"]
    /\ UNCHANGED <<pnl, today, obs, rec, mm, qt>>

\* continueSyncLoop wakes up and syncFromServer awaits fetchInfo
LedSyncStart ==
    /\ led.sync.pc = "idle"
    /\ led' = [led EXCEPT !.sync = [LedSyncIdle EXCEPT !.pc = "sent"], !.ctx = NoCtx,
                          !.last = "none"]
    /\ UNCHANGED <<pnl, today, obs, rec, mm, qt>>

\* the venue answers fetchInfo with its position
LedSyncFetch ==
    /\ led.sync.pc = "sent"
    /\ led' = [led EXCEPT !.sync.pc = "answered", !.sync.serverSize = led.serverPos,
                          !.ctx = NoCtx, !.last = "none"]
    /\ UNCHANGED <<pnl, today, obs, rec, mm, qt>>

\* syncFromServer resumes: a drift beyond the threshold is adopted
LedSyncApply ==
    /\ led.sync.pc = "answered"
    /\ led' = [led EXCEPT
          !.baseSize = syncFromServerApply(@, led.sync.serverSize),
          !.sync = LedSyncIdle,
          !.ctx = NoCtx, !.last = IF led.sync.fillSeen THEN "syncedDuringFill"
                   ELSE IF PosDrifted(led.baseSize, led.sync.serverSize) THEN "adopted"
                   ELSE "kept"]
    /\ UNCHANGED <<pnl, today, obs, rec, mm, qt>>

\* fetchInfo throws: syncFromServer backs off and fetches again, or gives up
LedSyncFetchFails ==
    /\ led.sync.pc = "sent"
    /\ led' = IF led.sync.attempt < POS_SYNC_RETRIES
              THEN [led EXCEPT !.sync.attempt = @ + 1,
                               !.sync.slept =
                                   Append(@, backoffMs(POS_SYNC_BASE_DELAY, led.sync.attempt)),
                               !.ctx = NoCtx, !.last = "none"]
              ELSE [led EXCEPT !.sync = LedSyncIdle, !.ctx = NoCtx, !.last = "gaveUp"]
    /\ UNCHANGED <<pnl, today, obs, rec, mm, qt>>

\* logStatus / logSnapshot: getState at the last fair price
LedStatus ==
    /\ led.lastFairPrice # 0
    /\ pnl' = getState(pnl, today, led.lastFairPrice)
    /\ led' = [led EXCEPT !.ctx = NoCtx, !.last = "none"]
    /\ UNCHANGED <<today, obs, rec, mm, qt>>

\* the UTC date changes
LedClock ==
    /\ today < MaxDay
    /\ today' = today + 1
    /\ led' = [led EXCEPT !.ctx = NoCtx, !.last = "none", !.lastTick = "none"]
    /\ UNCHANGED <<pnl, obs, rec, mm, qt>>

NextLed ==
    \/ LedTick
    \/ LedFill
    \/ LedDrift
    \/ LedSyncStart
    \/ LedSyncFetch
    \/ LedSyncApply
    \/ LedSyncFetchFails

\* The status task and the date write neither ledger's position; SpecLed runs
\* the ticks, the fills, the venue's drift and the position sync loop.
SpecLed == InitLed /\ [][NextLed]_vars

\* The position sync loop and the venue's drift write neither the PnL ledger
\* nor what the tick and the status task read of it; SpecLedFair runs the
\* ticks, the fills, the status task and the clock.  startIntervals arms
\* logStatus with setInterval, so the status task keeps firing while the
\* process runs; ticks fire for as long as the reference price feed delivers
\* prices.
NextLedFair ==
    \/ LedTick
    \/ LedFill
    \/ LedStatus
    \/ LedClock

SpecLedFair ==
    InitLed /\ [][NextLedFair]_vars /\ WF_vars(LedStatus) /\ WF_vars(LedTick)


(***************************************************************************)
(* Claims about the two position ledgers, checked under SpecLed            *)
(***************************************************************************)

\* C11: after a position sync completed with no fill arriving during it, the
\* PnL ledger's positionBase equals the position ledger's baseSize, also when
\* the sync adopted a server value that differs from the local one.
C11_SyncReconcilesPnlLedger ==
    (led.pnlSeeded /\ led.last \in {"kept", "adopted"}) =>
        pnl.positionBase = led.baseSize

\* C13: a fill of size s moves the position ledger's baseSize and the PnL
\* ledger's positionBase by +s (bid) or -s (ask) each, whatever the position
\* before it, also when the fill closes more than the open position.  The
\* fill is the step that counts a trade; s is what the venue's position moved.
C13_FillMovesBothLedgers ==
    [][(pnl'.tradeCount = pnl.tradeCount + 1) =>
          LET s == led'.serverPos - led.serverPos
          IN  /\ Abs(s) \in Sizes
              /\ led'.baseSize = led.baseSize + s
              /\ pnl'.positionBase = pnl.positionBase + s]_vars

\* a fill larger than the open position was applied to both ledgers
C13_Witness ==
    /\ led.last = "flip"
    /\ pnl.tradeCount = MaxLedFills
    /\ pnl.positionBase # 0

\* C16: when the UTC date has changed while the ledger is halted with the
\* daily loss limit as its reason, then, unless a fill arrives first, the halt
\* is cleared and a tick after that goes on to quote; no resetHalt is needed.
\* Checked under SpecLedFair.
C16_RolloverResumesQuoting ==
    \A n \in 0..MaxLedFills :
        ( /\ pnl.shouldHalt
          /\ IsDailyLossReason(pnl.haltReason)
          /\ today # pnl.dailyStartDate
          /\ pnl.tradeCount = n )
        ~> ( \/ ~pnl.shouldHalt /\ led.lastTick = "quoted"
             \/ pnl.tradeCount # n )

\* a tick quoted on the day after the daily loss limit halted the ledger
C16_Witness ==
    /\ today = 1 /\ pnl.dailyStartDate = 1
    /\ ~pnl.shouldHalt
    /\ led.lastTick = "quoted"
    /\ pnl.tradeCount = MaxLedFills
    /\ RLe(pnl.realizedPnl, R(-dailyLossLimitUsd))


(***************************************************************************)
(* SpecQuoter: EnhancedQuoter.getQuotes and MarketMaker.applyMarginFallback *)
(*                                                                         *)
(* Prices are in USD with a tick of 1 USD, sizes in lots of 1 unit          *)
(* (priceDecimals = sizeDecimals = 0); bps values and ratios are exact      *)
(* rationals.  The quoter configuration is ENHANCED_STRATEGY.quoter with    *)
(* the USD amounts scaled to a fair price of 1000 USD.                      *)
(***************************************************************************)

\* consecutive margin rejections in one behaviour
MaxRejections == 2

\* ---- EnhancedQuoterConfig, orderSizeUsd, fees ----
baseSpreadBps == R(8)
maxSpreadBps == R(15)
volMultiplier == <<4, 5>>
skewFactor == R(3)
quoterMaxPositionUsd == 10000
sizeReductionStart == <<3, 10>>
levelSpacingBps == R(5)
momentumPenaltyBps == R(4)
orderSizeUsd == 3000
makerFeeBps == R(1)
tickSize == 1
lotSize == 1
\* the hard cap of the strategy: MarketMakerConfig.closeThresholdUsd
quoterCloseThresholdUsd == 8000

\* ---- what a tick can feed the quoter ----
FairPrices == {1000}
QuoterPositions == {-10, -8, 0, 8, 10}
\* VolatilityTracker.getVolatilityBps(): null until ready, then a reading
NullVol == -1
Volatilities == {NullVol, 0, 2, 20}
Momenta == {-5, 0, 5}
\* orderbookStream.getBBO(): null, or <<bestBid, bestAsk>>
NoBbo == <<>>
Bbos == {NoBbo, <<990, 991>>, <<999, 1001>>, <<1009, 1010>>}
LevelChoices == {1, 2, 3}

\* ---- arithmetic ----
RDiv(x, y) == IF y[1] > 0 THEN RNorm(x[1] * y[2], x[2] * y[1])
              ELSE RNorm(-(x[1] * y[2]), x[2] * (-y[1]))
RMin(x, y) == IF RLt(y, x) THEN y ELSE x
RAbs(x) == <<Abs(x[1]), x[2]>>
RFloor(x) == x[1] \div x[2]
RCeil(x) == -((-x[1]) \div x[2])
\* private clamp(value, min, max)
clamp(value, min, max) == RMax(min, RMin(max, value))

\* ---- EnhancedQuoter ----
minSpreadBps == RMul(R(2), makerFeeBps)

\* getLevelWeights(levels)
getLevelWeights(levels) ==
    IF levels = 1 THEN <<R(1)>>
    ELSE IF levels = 2 THEN << <<13, 20>>, <<7, 20>> >>
    ELSE << <<11, 20>>, <<3, 10>>, <<3, 20>> >>

\* alignPrice(price, round), in USD
alignPrice(price, round) ==
    LET ticks == RDivInt(price, tickSize)
    IN  (IF round = "floor" THEN RFloor(ticks) ELSE RCeil(ticks)) * tickSize

\* alignSize(size), in base units
alignSize(size) == RFloor(RDivInt(size, lotSize)) * lotSize

\* usdToSize(usd, fairPrice)
usdToSize(usd, fairPrice) == alignSize(RDiv(R(usd), R(fairPrice)))

\* the context executeUpdate builds for the quoter
EnhancedCtx(fairPrice, positionBase, volatilityBps, momentumBps) ==
    [fairPrice |-> fairPrice, positionUsd |-> positionBase * fairPrice,
     positionBase |-> positionBase, volatilityBps |-> volatilityBps,
     momentumBps |-> momentumBps]

positionRatioOf(ctx) ==
    clamp(RDiv(R(ctx.positionUsd), R(quoterMaxPositionUsd)), R(-1), R(1))

\* volatilityBps ?? this.config.baseSpreadBps
volOf(ctx) == IF ctx.volatilityBps = NullVol THEN baseSpreadBps ELSE R(ctx.volatilityBps)

\* 1. inventory skew
skewedMidOf(ctx) ==
    LET skewBps == RMul(RMul(skewFactor, positionRatioOf(ctx)), volOf(ctx))
        skewAmount == RDivInt(RMul(R(ctx.fairPrice), skewBps), 10000)
    IN  RSub(R(ctx.fairPrice), skewAmount)

\* 2. volatility-adaptive spread
spreadBpsOf(ctx) ==
    clamp(RAdd(baseSpreadBps, RMul(volMultiplier, volOf(ctx))),
          RMax(baseSpreadBps, minSpreadBps), maxSpreadBps)

\* 3. momentum guard
momentumPenaltyOf(ctx) ==
    LET absMomentum == Abs(ctx.momentumBps)
    IN  IF RLt(<<3, 2>>, R(absMomentum))
        THEN RMul(momentumPenaltyBps, RDivInt(R(absMomentum), 5))
        ELSE R(0)
bidSpreadBpsOf(ctx) ==
    RAdd(spreadBpsOf(ctx),
         IF RLt(<<3, 2>>, R(ctx.momentumBps)) THEN momentumPenaltyOf(ctx) ELSE R(0))
askSpreadBpsOf(ctx) ==
    RAdd(spreadBpsOf(ctx),
         IF RLt(R(ctx.momentumBps), <<-3, 2>>) THEN momentumPenaltyOf(ctx) ELSE R(0))


\* 4. gradual size reduction: <<bidSizeMult, askSizeMult>>
sizeMultsOf(ctx) ==
    LET absPositionRatio == RAbs(positionRatioOf(ctx))
        isLong == ctx.positionUsd > 0
        reductionRange == RSub(R(1), sizeReductionStart)
        reductionPct == RMin(R(1), RDiv(RSub(absPositionRatio, sizeReductionStart),
                                        reductionRange))
        cut == RMax(R(0), RSub(R(1), RMul(reductionPct, <<4, 5>>)))
        boost == RAdd(R(1), RMul(reductionPct, <<3, 10>>))
        reduced == IF RLt(sizeReductionStart, absPositionRatio)
                   THEN (IF isLong THEN <<cut, boost>> ELSE <<boost, cut>>)
                   ELSE <<R(1), R(1)>>
    IN  IF RLt(<<9, 10>>, absPositionRatio)
        THEN (IF isLong THEN <<R(0), reduced[2]>> ELSE <<reduced[1], R(0)>>)
        ELSE reduced

\* the bid of one level without the clamp to the BBO
bidQuoteOf_NoClamp(ctx, bbo, levels, level) ==
    LET skewedMid == skewedMidOf(ctx)
        totalBidBps == RAdd(bidSpreadBpsOf(ctx), RMul(R(level), levelSpacingBps))
        bidSpread == RDivInt(RMul(skewedMid, totalBidBps), 10000)
        bidPrice == alignPrice(RSub(skewedMid, bidSpread), "floor")
        baseSize == usdToSize(orderSizeUsd, ctx.fairPrice)
        bidSizeMult == sizeMultsOf(ctx)[1]
        bidSize == alignSize(RMul(R(baseSize),
                                  RMul(bidSizeMult, getLevelWeights(levels)[level + 1])))
    IN  IF RLt(R(0), bidSizeMult) /\ bidPrice > 0 /\ bidSize > 0
        THEN <<Quote("bid", bidPrice, bidSize)>>
        ELSE <<>>

\* the bid of one level (level counts from 0): a sequence of no or one quote
bidQuoteOf(ctx, bbo, levels, level) ==
    LET skewedMid == skewedMidOf(ctx)
        totalBidBps == RAdd(bidSpreadBpsOf(ctx), RMul(R(level), levelSpacingBps))
        bidSpread == RDivInt(RMul(skewedMid, totalBidBps), 10000)
        rawPrice == alignPrice(RSub(skewedMid, bidSpread), "floor")
        bidPrice == IF bbo # NoBbo /\ rawPrice >= bbo[2]
                    THEN alignPrice(R(bbo[2] - tickSize), "floor")
                    ELSE rawPrice
        baseSize == usdToSize(orderSizeUsd, ctx.fairPrice)
        bidSizeMult == sizeMultsOf(ctx)[1]
        bidSize == alignSize(RMul(R(baseSize),
                                  RMul(bidSizeMult, getLevelWeights(levels)[level + 1])))
    IN  IF RLt(R(0), bidSizeMult) /\ bidPrice > 0 /\ bidSize > 0
        THEN <<Quote("bid", bidPrice, bidSize)>>
        ELSE <<>>

\* the ask of one level
askQuoteOf(ctx, bbo, levels, level) ==
    LET skewedMid == skewedMidOf(ctx)
        totalAskBps == RAdd(askSpreadBpsOf(ctx), RMul(R(level), levelSpacingBps))
        askSpread == RDivInt(RMul(skewedMid, totalAskBps), 10000)
        rawPrice == alignPrice(RAdd(skewedMid, askSpread), "ceil")
        askPrice == IF bbo # NoBbo /\ rawPrice <= bbo[1]
                    THEN alignPrice(R(bbo[1] + tickSize), "ceil")
                    ELSE rawPrice
        baseSize == usdToSize(orderSizeUsd, ctx.fairPrice)
        askSizeMult == sizeMultsOf(ctx)[2]
        askSize == alignSize(RMul(R(baseSize),
                                  RMul(askSizeMult, getLevelWeights(levels)[level + 1])))
    IN  IF RLt(R(0), askSizeMult) /\ askPrice > 0 /\ askSize > 0
        THEN <<Quote("ask", askPrice, askSize)>>
        ELSE <<>>

\* 5. the level loop from level on
RECURSIVE levelQuotes(_, _, _, _)
levelQuotes(ctx, bbo, levels, level) ==
    IF level >= levels THEN <<>>
    ELSE bidQuoteOf(ctx, bbo, levels, level) \o askQuoteOf(ctx, bbo, levels, level)
         \o levelQuotes(ctx, bbo, levels, level + 1)

\* EnhancedQuoter.getQuotes(ctx, bbo) of a quoter configured with levels
getQuotes(ctx, bbo, levels) ==
    IF usdToSize(orderSizeUsd, ctx.fairPrice) <= 0 THEN <<>>
    ELSE levelQuotes(ctx, bbo, levels, 0)

\* ---- margin fallback ----

\* the reduce of selectBestQuoteForSide: the first of the best-priced quotes
RECURSIVE bestOf(_, _, _)
bestOf(best, rest, side) ==
    IF rest = <<>> THEN best
    ELSE LET current == Head(rest)
             better == IF side = "bid" THEN current.price > best.price
                       ELSE current.price < best.price
         IN  bestOf(IF better THEN current ELSE best, Tail(rest), side)

\* selectBestQuoteForSide(quotes, side): <<>> for null
selectBestQuoteForSide(quotes, side) ==
    LET onSide(q) == q.side = side
        sideQuotes == SelectSeq(quotes, onSide)
    IN  IF sideQuotes = <<>> THEN <<>>
        ELSE <<bestOf(Head(sideQuotes), Tail(sideQuotes), side)>>

otherSide(side) == IF side = "bid" THEN "ask" ELSE "bid"

\* step 1 of applyMarginFallback: one level per side
fallbackStep1_Always(quotes) ==
    selectBestQuoteForSide(quotes, "bid") \o selectBestQuoteForSide(quotes, "ask")

fallbackStep1(quotes) ==
    LET twoSided == selectBestQuoteForSide(quotes, "bid")
                    \o selectBestQuoteForSide(quotes, "ask")
    IN  IF Len(quotes) > 2 /\ Len(twoSided) > 0 /\ Len(twoSided) < Len(quotes)
        THEN twoSided
        ELSE quotes

\* the side step 2 falls back to
fallbackSideOf_NoToggle(positionBase, flatSideFallbackNext) ==
    IF positionBase > 0 THEN "ask" ELSE IF positionBase < 0 THEN "bid" ELSE "bid"

fallbackSideOf(positionBase, flatSideFallbackNext) ==
    IF positionBase > 0 THEN "ask"
    ELSE IF positionBase < 0 THEN "bid"
    ELSE flatSideFallbackNext

\* applyMarginFallback(quotes, positionBase): the quotes it returns and the
\* flatSideFallbackNext it leaves
applyMarginFallback(quotes, positionBase, marginRejections, flatSideFallbackNext) ==
    IF marginRejections = 0
    THEN [quotes |-> quotes, flatSideFallbackNext |-> flatSideFallbackNext]
    ELSE LET reduced == fallbackStep1(quotes)
         IN  IF marginRejections >= 2 /\ Len(reduced) > 1
             THEN LET single == selectBestQuoteForSide(
                                    reduced, fallbackSideOf(positionBase, flatSideFallbackNext))
                  IN  [quotes |-> IF single # <<>> THEN single ELSE reduced,
                       flatSideFallbackNext |->
                           IF positionBase = 0 THEN otherSide(flatSideFallbackNext)
                           ELSE flatSideFallbackNext]
             ELSE [quotes |-> reduced, flatSideFallbackNext |-> flatSideFallbackNext]

\* ---- the specification ----

\* the results of the last tick are cleared when its inputs move on
Stale(q) == [q EXCEPT !.fresh = FALSE, !.raw = <<>>, !.quotes = <<>>]

\* an error message is modelled by the set of the markers it contains, of
\* those that executeAtomic and executeUpdate look for with includes()
ErrorMessages ==
    { {"POST_ONLY"}, {"MUST_NOT_FILL"}, {"ORDER_NOT_FOUND"}, {"reason: undefined"},
      {"Atomic operation failed"}, {"OMF"}, {"RISK_TRADE"}, {"margin"}, {} }
NoError == {"no error"}

\* errMsg.includes(marker)
includes(errMsg, marker) == marker \in errMsg

\* a catch block that does not skip chunks with a stale order id
isRecoveredError_NotStaleId(errMsg) ==
    \/ includes(errMsg, "POST_ONLY") \/ includes(errMsg, "MUST_NOT_FILL")
    \/ includes(errMsg, "reason: undefined")
    \/ includes(errMsg, "Atomic operation failed")

\* the branches of executeAtomic's catch block that do not rethrow
isRecoveredError(errMsg) ==
    \/ includes(errMsg, "POST_ONLY") \/ includes(errMsg, "MUST_NOT_FILL")
    \/ includes(errMsg, "ORDER_NOT_FOUND")
    \/ includes(errMsg, "reason: undefined")
    \/ includes(errMsg, "Atomic operation failed")

\* the first test of executeUpdate's catch block
isMarginError(errMsg) ==
    includes(errMsg, "OMF") \/ includes(errMsg, "RISK_TRADE") \/ includes(errMsg, "margin")

isPostOnlyError(errMsg) == includes(errMsg, "POST_ONLY") \/ includes(errMsg, "MUST_NOT_FILL")

\* what is left of marginRejections by a catch block that clears it on an
\* error that is not a margin error
rejectionsAfterCatch_Cleared(marginRejections, errMsg) ==
    IF isMarginError(errMsg) THEN marginRejections + 1 ELSE 0

\* marginRejections after the catch block of executeUpdate
rejectionsAfterCatch(marginRejections, errMsg) ==
    IF isMarginError(errMsg) THEN marginRejections + 1 ELSE marginRejections

\* the outcome of the last reconcile: none since the last tick began
NoOutcome == {"no outcome"}

\* a MarketMaker constructed with an enhanced strategy of some number of
\* levels, before the first price
InitQuoter ==
    /\ pnl = PnlInit(0)
    /\ today = 0
    /\ obs = ObsInit
    /\ rec = RecIdle
    /\ mm = MMIdle
    /\ led = LedIdle
    /\ \E levels \in LevelChoices :
          qt = [ phase |-> "on", levels |-> levels,
                 marginRejections |-> 0, flatSideFallbackNext |-> "bid",
                 isUpdating |-> FALSE,
                 positionBase |-> 0, volatilityBps |-> NullVol, momentumBps |-> 0,
                 bbo |-> NoBbo, lastFairPrice |-> 0,
                 fresh |-> FALSE, raw |-> <<>>, quotes |-> <<>>,
                 prevFlatSide |-> "none", outcome |-> NoOutcome, streak |-> 0 ]

\* the context the last tick gave the quoter (while qt.fresh)
CtxOf(q) == EnhancedCtx(q.lastFairPrice, q.positionBase, q.volatilityBps, q.momentumBps)

\* whether a tick with these inputs is a fallback tick of the second stage
\* on a flat position that hands quotes to the reconciler
IsFlatFallback(marginRejections, positionBase, raw) ==
    marginRejections >= 2 /\ positionBase = 0 /\ raw # <<>>

\* handleRefPrice: the volatility tracker and the momentum detector take the
\* reference price
QuoterRefPrice ==
    /\ \E volatilityBps \in Volatilities, momentumBps \in Momenta :
          /\ <<volatilityBps, momentumBps>> # <<qt.volatilityBps, qt.momentumBps>>
          /\ qt' = [Stale(qt) EXCEPT !.volatilityBps = volatilityBps,
                                     !.momentumBps = momentumBps]
    /\ UNCHANGED <<pnl, today, obs, rec, mm, led>>

\* the orderbook stream moves the BBO
QuoterBbo ==
    /\ \E bbo \in Bbos \ {qt.bbo} : qt' = [Stale(qt) EXCEPT !.bbo = bbo]
    /\ UNCHANGED <<pnl, today, obs, rec, mm, led>>

\* a fill or a position sync moves PositionTracker.baseSize
QuoterPosition ==
    /\ \E positionBase \in QuoterPositions \ {qt.positionBase} :
          qt' = [Stale(qt) EXCEPT !.positionBase = positionBase]
    /\ UNCHANGED <<pnl, today, obs, rec, mm, led>>

\* executeUpdate from the guard to the updateQuotes call: the tick returns at
\* the guard or when no quote is left, else it awaits the reconciler
QuoterTick ==
    /\ ~reentrancyGuard(qt.isUpdating)
    /\ \E fairPrice \in FairPrices :
        \E raw \in {getQuotes(EnhancedCtx(fairPrice, qt.positionBase, qt.volatilityBps,
                                          qt.momentumBps), qt.bbo, qt.levels)} :
        \E fb \in {applyMarginFallback(raw, qt.positionBase, qt.marginRejections,
                                       qt.flatSideFallbackNext)} :
              qt' = [qt EXCEPT
                  !.lastFairPrice = fairPrice, !.fresh = TRUE,
                  !.raw = raw, !.quotes = fb.quotes,
                  !.flatSideFallbackNext = fb.flatSideFallbackNext,
                  !.isUpdating = (fb.quotes # <<>>),
                  !.outcome = NoOutcome,
                  !.prevFlatSide =
                      IF IsFlatFallback(qt.marginRejections, qt.positionBase, raw)
                      THEN fb.quotes[1].side ELSE @]
    /\ UNCHANGED <<pnl, today, obs, rec, mm, led>>

\* updateQuotes resolved, with or without chunk errors: the rejection counter
\* is cleared
QuoterAccepted ==
    /\ qt.isUpdating
    /\ qt' = [Stale(qt) EXCEPT !.isUpdating = FALSE,
                               !.marginRejections = IF @ > 0 THEN 0 ELSE @,
                               !.outcome = NoError, !.streak = 0]
    /\ UNCHANGED <<pnl, today, obs, rec, mm, led>>

\* updateQuotes threw an error that executeAtomic does not recover from, and
\* the catch block finds it to be a margin error: the rejection counter goes up
QuoterMarginRejected ==
    /\ qt.isUpdating
    /\ qt.marginRejections < MaxRejections
    /\ \E errMsg \in ErrorMessages :
          /\ ~isRecoveredError(errMsg) /\ isMarginError(errMsg)
          /\ qt' = [Stale(qt) EXCEPT
                       !.isUpdating = FALSE,
                       !.marginRejections = rejectionsAfterCatch(@, errMsg),
                       !.outcome = errMsg, !.streak = @ + 1]
    /\ UNCHANGED <<pnl, today, obs, rec, mm, led>>

\* updateQuotes threw another error: the rejection counter is kept
QuoterOtherError ==
    /\ qt.isUpdating
    /\ \E errMsg \in ErrorMessages :
          /\ ~isRecoveredError(errMsg) /\ ~isMarginError(errMsg)
          /\ qt' = [Stale(qt) EXCEPT
                       !.isUpdating = FALSE,
                       !.marginRejections = rejectionsAfterCatch(@, errMsg),
                       !.outcome = errMsg]
    /\ UNCHANGED <<pnl, today, obs, rec, mm, led>>

NextQuoter ==
    \/ QuoterRefPrice
    \/ QuoterBbo
    \/ QuoterPosition
    \/ QuoterTick
    \/ QuoterAccepted
    \/ QuoterMarginRejected
    \/ QuoterOtherError

SpecQuoter == InitQuoter /\ [][NextQuoter]_vars


(***************************************************************************)
(* Claims about the quoter and the margin fallback, checked under          *)
(* SpecQuoter                                                              *)
(***************************************************************************)

SidesOf(quotes) == {quotes[i].side : i \in 1..Len(quotes)}
QuotesOn(quotes, side) == {q \in Range(quotes) : q.side = side}

\* C12: when |positionUsd| >= closeThresholdUsd the quoter emits no quote on
\* the adding side: no bid when long, no ask when short.
C12_HardCap ==
    (qt.fresh /\ Abs(CtxOf(qt).positionUsd) >= quoterCloseThresholdUsd) =>
        /\ CtxOf(qt).positionUsd > 0 => "bid" \notin SidesOf(qt.raw)
        /\ CtxOf(qt).positionUsd < 0 => "ask" \notin SidesOf(qt.raw)

\* C17: when the venue's BBO is supplied, every bid the quoter returns is
\* priced below bestAsk and every ask above bestBid, at every level and for
\* every position, volatility and momentum.
C17_BboNonCrossing ==
    (qt.fresh /\ qt.bbo # NoBbo) =>
        \A q \in Range(qt.raw) :
            /\ q.side = "bid" => q.price < qt.bbo[2]
            /\ q.side = "ask" => q.price > qt.bbo[1]

\* the book is below the fair price and the clamp moved a bid under bestAsk,
\* or the book is above it and the clamp moved an ask over bestBid
C17_Witness ==
    /\ qt.fresh /\ qt.bbo # NoBbo /\ qt.levels = 3
    /\ \/ /\ qt.bbo[2] < qt.lastFairPrice - 5
          /\ Cardinality({i \in 1..Len(qt.raw) : qt.raw[i].side = "bid"
                              /\ qt.raw[i].price = qt.bbo[2] - tickSize}) >= 2
       \/ /\ qt.bbo[1] > qt.lastFairPrice + 5
          /\ Cardinality({i \in 1..Len(qt.raw) : qt.raw[i].side = "ask"
                              /\ qt.raw[i].price = qt.bbo[1] + tickSize}) >= 2
\* C18: with skewFactor > 0 the skewed mid of a tick is below the fair price
\* when positionUsd > 0, above it when positionUsd < 0 and equal to it when
\* positionUsd = 0, for every volatility reading, a ready reading of 0 bps
\* included.
C18_SkewSign ==
    qt.fresh =>
        LET ctx == CtxOf(qt)
            fair == R(ctx.fairPrice)
        IN  /\ ctx.positionUsd > 0 => RLt(skewedMidOf(ctx), fair)
            /\ ctx.positionUsd < 0 => RLt(fair, skewedMidOf(ctx))
            /\ ctx.positionUsd = 0 => skewedMidOf(ctx) = fair
\* the positions of the quotes of a side
IndicesOn(quotes, side) == {i \in 1..Len(quotes) : quotes[i].side = side}

\* C19: after a tick that ran with marginRejections >= 1, the quotes handed to
\* the reconciler hold at most one bid and at most one ask, the bid being the
\* highest-priced bid and the ask the lowest-priced ask of the quoter's
\* output, also when that output is two or three quotes of one side.
C19_FallbackOnePerSide ==
    (qt.fresh /\ qt.marginRejections >= 1) =>
        /\ Cardinality(IndicesOn(qt.quotes, "bid")) <= 1
        /\ Cardinality(IndicesOn(qt.quotes, "ask")) <= 1
        /\ \A q \in QuotesOn(qt.quotes, "bid") :
              \A r \in QuotesOn(qt.raw, "bid") : r.price <= q.price
        /\ \A q \in QuotesOn(qt.quotes, "ask") :
              \A r \in QuotesOn(qt.raw, "ask") : q.price <= r.price
\* C20: a tick that runs with marginRejections >= 2 and gets quotes from the
\* quoter hands exactly one quote to the reconciler: an ask when the position
\* is long, a bid when it is short, and when it is flat a quote on the other
\* side than the previous such tick on a flat position.  The tick that hands
\* quotes over is the step that sets isUpdating.
C20_FallbackSingleQuote ==
    [][(~qt.isUpdating /\ qt'.isUpdating /\ qt.marginRejections >= 2) =>
          /\ Len(qt'.quotes) = 1
          /\ qt.positionBase > 0 => qt'.quotes[1].side = "ask"
          /\ qt.positionBase < 0 => qt'.quotes[1].side = "bid"
          /\ (qt.positionBase = 0 /\ qt.prevFlatSide # "none") =>
                qt'.quotes[1].side # qt.prevFlatSide]_vars

\* the second fallback tick in a row on a flat position: a single ask after
\* a single bid
C20_Witness ==
    /\ qt.fresh /\ qt.isUpdating
    /\ qt.marginRejections >= 2
    /\ qt.positionBase = 0
    /\ Len(qt.raw) >= 4
    /\ Len(qt.quotes) = 1
    /\ qt.quotes[1].side = "ask"
    /\ qt.prevFlatSide = "ask"

(***************************************************************************)
(* SpecAtomic: one call of updateQuotes, chunk by chunk, and what the tick  *)
(* that made it does when it returns or throws.                            *)
(*                                                                         *)
(* updateQuotes builds the action list and executeAtomic submits it in     *)
(* chunks, awaiting user.atomic for each.  The venue answers a chunk with  *)
(* a result list, in which a place result may carry no posted order id, or *)
(* with an error, of which executeAtomic only reads the message.           *)
(*                                                                         *)
(* rec.actions   the action list of the call                               *)
(* rec.todo      the actions from the chunk in flight on                   *)
(* rec.pc        "sent": awaiting user.atomic; "returned"; "thrown"        *)
(* rec.chunks    the chunks submitted so far (history)                     *)
(* rec.errs      per submitted and answered chunk, the message of the      *)
(*               error it failed with, or NoError (history)                *)
(* rec.results   per submitted and answered chunk, the result list, <<>>   *)
(*               for a failed chunk (history)                              *)
(* rec.placed    per answered chunk, the cached orders built from it       *)
(*               (history)                                                 *)
(* rec.activeOrders   the order cache of the bot, rec.current before the   *)
(*               tick                                                      *)
(* rec.syncsStarted   the order syncs the tick has started                 *)
(***************************************************************************)

\* the order ids the venue posts the places of a chunk under: 0 for a place
\* it reports without a posted order, else the next free ids in order
PostedMasks(chunk) == [1..Len(placesOf(chunk)) -> BOOLEAN]
PostedBefore(mask, k) == Cardinality({j \in 1..(k - 1) : mask[j]})

\* the venue's result of a chunk: one result per action, in action order
atomicResult(chunk, nextId, mask) ==
    [i \in 1..Len(chunk) |->
        IF IsPlace(chunk[i])
        THEN LET k == Len(placesOf(SubSeq(chunk, 1, i)))
             IN  [case |-> "placeOrderResult",
                  posted |-> IF mask[k] THEN nextId + PostedBefore(mask, k) ELSE 0]
        ELSE [case |-> "cancelOrderResult", posted |-> 0]]

\* prices in ticks: the two bids are 1 bp apart, the two asks 98 bps
AtomicQuotes ==
    {Quote("bid", 10000, 1), Quote("bid", 10001, 1), Quote("ask", 10002, 1),
     Quote("ask", 10100, 2)}

\* DEFAULT_CONFIG.repriceThresholdBps, which executeUpdate hands to
\* updateQuotes as a fifth argument
repriceThresholdBps == 2

AtomicIdle ==
    [ phase |-> "atomic", current |-> <<>>, desired |-> <<>>, keptOrders |-> <<>>,
      actions |-> <<>>, todo |-> <<>>, pc |-> "idle", chunks |-> <<>>, errs |-> <<>>,
      results |-> <<>>, placed |-> <<>>, allOrders |-> <<>>, hadChunkErrors |-> FALSE,
      nextId |-> 1, activeOrders |-> <<>>, syncsStarted |-> 0 ]

\* executeUpdate after updateQuotes returned: the cache is replaced by the
\* result's orders and a sync is forced after chunk errors
tickAfterReturn(r) ==
    [r EXCEPT !.activeOrders = IF r.actions = <<>> THEN r.current
                               ELSE r.keptOrders \o r.allOrders,
              !.syncsStarted = IF r.hadChunkErrors THEN @ + 1 ELSE @]

\* a catch block that forces a sync whatever the error
tickCatch_AlwaysSync(r, errMsg) == [r EXCEPT !.syncsStarted = @ + 1]

\* the catch block of executeUpdate
tickCatch(r, errMsg) ==
    IF isMarginError(errMsg) THEN r
    ELSE IF isPostOnlyError(errMsg) THEN r
    ELSE IF includes(errMsg, "ORDER_NOT_FOUND") THEN [r EXCEPT !.syncsStarted = @ + 1]
    ELSE [r EXCEPT !.syncsStarted = @ + 1]

InitAtomic ==
    /\ pnl = PnlInit(0)
    /\ today = 0
    /\ obs = ObsInit
    /\ mm = MMIdle
    /\ led = LedIdle
    /\ qt = QtIdle
    /\ rec = AtomicIdle

\* updateQuotes(user, marketId, currentOrders, newQuotes) up to the first
\* await: it returns the cache when there is nothing to do, else
\* executeAtomic submits the first chunk.  The function has four parameters:
\* a fifth argument is not read.
AtomicCall ==
    /\ rec.pc = "idle"
    /\ \E cq \in SeqsUpTo(AtomicQuotes, MaxCache), desired \in SeqsUpTo(AtomicQuotes, MaxDesired) :
          LET current == CacheOf(cq)
              actions == actionsOf(current, desired)
              called == [rec EXCEPT
                  !.current = current, !.desired = desired, !.activeOrders = current,
                  !.keptOrders = keptOrdersOf(current, desired),
                  !.actions = actions, !.todo = actions,
                  !.nextId = Len(current) + 1]
          IN  rec' = IF actions = <<>>
                     THEN tickAfterReturn([called EXCEPT !.pc = "returned"])
                     ELSE [called EXCEPT !.pc = "sent", !.chunks = <<chunkOf(actions)>>]
    /\ UNCHANGED <<pnl, today, obs, mm, led, qt>>

\* the loop of executeAtomic after the chunk in flight was answered: the next
\* chunk is submitted, or the loop is over and updateQuotes returns to the tick
AtomicLoop(r) ==
    LET todo == afterChunk(r.todo)
    IN  IF todo = <<>>
        THEN tickAfterReturn([r EXCEPT !.todo = todo, !.pc = "returned"])
        ELSE [r EXCEPT !.todo = todo, !.chunks = Append(@, chunkOf(todo))]

\* user.atomic(chunk) resolves
AtomicChunkOk ==
    /\ rec.pc = "sent"
    /\ \E mask \in PostedMasks(chunkOf(rec.todo)) :
          LET chunk == chunkOf(rec.todo)
              result == atomicResult(chunk, rec.nextId, mask)
              placed == extractPlacedOrders(result, chunk)
          IN  rec' = AtomicLoop([rec EXCEPT
                        !.allOrders = @ \o placed,
                        !.nextId = @ + Len(placed),
                        !.errs = Append(@, NoError),
                        !.results = Append(@, result),
                        !.placed = Append(@, placed)])
    /\ UNCHANGED <<pnl, today, obs, mm, led, qt>>

\* user.atomic(chunk) rejects with an error that the catch block logs
AtomicChunkRecovered ==
    /\ rec.pc = "sent"
    /\ \E errMsg \in ErrorMessages :
          /\ isRecoveredError(errMsg)
          /\ rec' = AtomicLoop([rec EXCEPT
                        !.hadChunkErrors = TRUE,
                        !.errs = Append(@, errMsg),
                        !.results = Append(@, <<>>),
                        !.placed = Append(@, <<>>)])
    /\ UNCHANGED <<pnl, today, obs, mm, led, qt>>

\* user.atomic(chunk) rejects with an error that the catch block rethrows:
\* it reaches the catch block of the tick
AtomicChunkThrown ==
    /\ rec.pc = "sent"
    /\ \E errMsg \in ErrorMessages :
          /\ ~isRecoveredError(errMsg)
          /\ rec' = tickCatch([rec EXCEPT
                                  !.hadChunkErrors = TRUE,
                                  !.errs = Append(@, errMsg),
                                  !.results = Append(@, <<>>),
                                  !.placed = Append(@, <<>>),
                                  !.pc = "thrown"], errMsg)
    /\ UNCHANGED <<pnl, today, obs, mm, led, qt>>

NextAtomic ==
    \/ AtomicCall
    \/ AtomicChunkOk
    \/ AtomicChunkRecovered
    \/ AtomicChunkThrown

SpecAtomic == InitAtomic /\ [][NextAtomic]_vars


\* sub can be had from seq by leaving elements out
RECURSIVE IsSubsequence(_, _)
IsSubsequence(sub, seq) ==
    IF sub = <<>> THEN TRUE
    ELSE IF seq = <<>> THEN FALSE
    ELSE IF Head(sub) = Head(seq) THEN IsSubsequence(Tail(sub), Tail(seq))
    ELSE IsSubsequence(sub, Tail(seq))

\* C21: a chunk that fails with POST_ONLY / MUST_NOT_FILL, ORDER_NOT_FOUND or
\* a no-reason venue error is skipped: the call does not throw on it, the
\* next chunk (if the list has one) is submitted and the returned result has
\* hadChunkErrors = TRUE.  A chunk that fails with any other error ends the
\* call: the error is thrown and the failed chunk is the last one submitted.
\* A returned result has hadChunkErrors = FALSE exactly when no chunk failed.
C21_ChunkFailurePolicy ==
    rec.phase = "atomic" =>
      /\ \A i \in 1..Len(rec.errs) :
            LET e == rec.errs[i]
                skipped == \/ "POST_ONLY" \in e \/ "MUST_NOT_FILL" \in e
                           \/ "ORDER_NOT_FOUND" \in e
                           \/ "reason: undefined" \in e
                           \/ "Atomic operation failed" \in e
            IN  e # NoError =>
                  IF skipped
                  THEN /\ ~(rec.pc = "thrown" /\ i = Len(rec.errs))
                       /\ Flatten(SubSeq(rec.chunks, 1, i)) # rec.actions
                             => Len(rec.chunks) > i
                       /\ rec.pc = "returned" => rec.hadChunkErrors
                  ELSE rec.pc = "thrown" /\ Len(rec.chunks) = i
      /\ rec.pc = "returned" =>
            /\ Flatten(rec.chunks) = rec.actions
            /\ rec.hadChunkErrors <=> (\E i \in 1..Len(rec.errs) : rec.errs[i] # NoError)

\* the first of two chunks failed with ORDER_NOT_FOUND, the second was
\* submitted and accepted, and the call returned
C21_Witness ==
    /\ rec.phase = "atomic" /\ rec.pc = "returned"
    /\ Len(rec.chunks) = 2
    /\ rec.errs = <<{"ORDER_NOT_FOUND"}, NoError>>
    /\ rec.hadChunkErrors

\* C22: the chunks submitted by one call are consecutive pieces of its action
\* list, each of 1 to MAX_ATOMIC_ACTIONS actions, submitted from the front of
\* the list on (all of it when the call returns); the list is cancels first,
\* then the places in the order of the desired quotes, so that no place is
\* submitted before a cancel.
C22_ChunkedInOrder ==
    rec.phase = "atomic" =>
      LET sub == Flatten(rec.chunks)
          asQuote(a) == Quote(a.side, a.price, a.size)
      IN  /\ \A i \in 1..Len(rec.chunks) : Len(rec.chunks[i]) \in 1..MAX_ATOMIC_ACTIONS
          /\ Len(sub) <= Len(rec.actions)
          /\ sub = SubSeq(rec.actions, 1, Len(sub))
          /\ \A i, j \in 1..Len(sub) : IsPlace(sub[i]) /\ IsCancel(sub[j]) => j < i
          /\ IsSubsequence(MapSeq(placesOf(rec.actions), asQuote), rec.desired)
          /\ rec.pc = "returned" => sub = rec.actions

\* a list of three cancels and two places went out as a chunk of four and a
\* chunk of one
C22_Witness ==
    /\ rec.phase = "atomic" /\ rec.pc = "returned"
    /\ Len(rec.chunks) = 2
    /\ Len(rec.chunks[1]) = MAX_ATOMIC_ACTIONS /\ IsPlace(rec.chunks[1][MAX_ATOMIC_ACTIONS])
    /\ Cardinality(cancelIdsOf(rec.chunks[1])) = 3 /\ IsPlace(rec.chunks[2][1])

\* the place results of a result list, in result order
PlaceResultsOf(results) == SelectSeq(results, LAMBDA r : r.case = "placeOrderResult")

\* C28: every cached order built from a chunk's result carries the side,
\* price and size of the place action at the position, among the chunk's
\* place actions, that its result has among the chunk's place results.
C28_PositionalPairing ==
    rec.phase = "atomic" =>
      \A c \in 1..Len(rec.results) :
        LET pr == PlaceResultsOf(rec.results[c])
            pa == placesOf(rec.chunks[c])
        IN  \A k \in 1..Len(pr) : \A n \in 1..Len(rec.placed[c]) :
              (pr[k].posted # 0 /\ rec.placed[c][n].orderId = pr[k].posted) =>
                  /\ rec.placed[c][n].side = pa[k].side
                  /\ rec.placed[c][n].price = pa[k].price
                  /\ rec.placed[c][n].size = pa[k].size


\* the distance of two prices in basis points of the first, as a rational
DriftBps(orderPrice, quotePrice) == RNorm(Abs(quotePrice - orderPrice) * 10000, orderPrice)

\* C23: a resting order that is the only one of its side, facing a single
\* desired quote of that side with the same size, is left resting when the
\* two prices differ by less than repriceThresholdBps, and is cancelled only
\* when they differ by more than repriceThresholdBps.
C23_RepriceThreshold ==
    (rec.phase = "atomic" /\ rec.pc # "idle") =>
      \A i \in 1..Len(rec.current) : \A j \in 1..Len(rec.desired) :
        LET o == rec.current[i]
            q == rec.desired[j]
            alone == /\ \A k \in 1..Len(rec.current) : rec.current[k].side = o.side => k = i
                     /\ \A k \in 1..Len(rec.desired) : rec.desired[k].side = o.side => k = j
            cancelled == o.orderId \in cancelIdsOf(rec.actions)
        IN  (alone /\ q.side = o.side /\ q.size = o.size) =>
              /\ RLt(DriftBps(o.price, q.price), <<repriceThresholdBps, 1>>) => ~cancelled
              /\ cancelled => RLt(<<repriceThresholdBps, 1>>, DriftBps(o.price, q.price))


(***************************************************************************)
(* SpecThrottle: the path from a reference price to a tick.                *)
(*                                                                         *)
(* handleRefPrice hands each fair price to throttledUpdate, which is       *)
(* throttle(executeUpdate, updateThrottleMs, {leading, trailing}); the     *)
(* throttle invokes executeUpdate at its leading edge and, when calls came *)
(* in during the wait, once more with the newest argument when its timer   *)
(* expires.  executeUpdate returns at once while a tick is in flight.      *)
(* Time is abstracted: the timer expires at some point after it was armed. *)
(* A fair price is identified by the number of the event that brought it.  *)
(*                                                                         *)
(* mm.events         reference-price events so far                         *)
(* mm.timer          the throttle's timer is armed                         *)
(* mm.lastArgs       the argument kept for the trailing edge, 0: none      *)
(* mm.cool           the last invocation was a trailing one, so that a     *)
(*                   call may still fall inside the wait after it          *)
(* mm.isUpdating     a tick is in flight                                   *)
(* mm.lastFairPrice  the fair price of the last tick that passed the guard *)
(* mm.dropped        the fair price of the last invocation that the guard  *)
(*                   dropped, 0: none (history)                            *)
(***************************************************************************)
MaxEvents == 6

ThrottleInit ==
    [ phase |-> "throttle", events |-> 0, timer |-> FALSE, lastArgs |-> 0, cool |-> FALSE,
      isUpdating |-> FALSE, lastFairPrice |-> 0, dropped |-> 0 ]

InitThrottle ==
    /\ pnl = PnlInit(0)
    /\ today = 0
    /\ obs = ObsInit
    /\ rec = RecIdle
    /\ led = LedIdle
    /\ qt = QtIdle
    /\ mm = ThrottleInit

\* executeUpdate(fairPrice) up to its first await
executeUpdateGuard(m, fairPrice) ==
    IF m.isUpdating
    THEN [m EXCEPT !.dropped = fairPrice]
    ELSE [m EXCEPT !.isUpdating = TRUE, !.lastFairPrice = fairPrice]

\* handleRefPrice with a fair price: throttledUpdate(fairPrice).  Outside the
\* wait the call is the leading edge and arms the timer; inside the wait the
\* argument is kept for the trailing edge.
ThrottleRefPrice ==
    /\ mm.events < MaxEvents
    /\ LET fairPrice == mm.events + 1
       IN  \/ /\ ~mm.timer
              /\ mm' = executeUpdateGuard(
                          [mm EXCEPT !.events = fairPrice, !.timer = TRUE, !.lastArgs = 0,
                                     !.cool = FALSE], fairPrice)
           \/ /\ mm.timer \/ mm.cool
              /\ mm' = [mm EXCEPT !.events = fairPrice, !.timer = TRUE,
                                  !.lastArgs = fairPrice]
    /\ UNCHANGED <<pnl, today, obs, rec, led, qt>>

\* the throttle's timer expires: the trailing edge invokes executeUpdate with
\* the kept argument, if there is one
ThrottleTimerExpired ==
    /\ mm.timer
    /\ mm' = IF mm.lastArgs # 0
             THEN executeUpdateGuard(
                      [mm EXCEPT !.timer = FALSE, !.lastArgs = 0, !.cool = TRUE], mm.lastArgs)
             ELSE [mm EXCEPT !.timer = FALSE, !.cool = FALSE]
    /\ UNCHANGED <<pnl, today, obs, rec, led, qt>>

\* the wait after a trailing invocation is over
ThrottleWaitOver ==
    /\ mm.cool /\ ~mm.timer
    /\ mm' = [mm EXCEPT !.cool = FALSE]
    /\ UNCHANGED <<pnl, today, obs, rec, led, qt>>

\* the tick in flight ends: the finally block of executeUpdate
ThrottleTickEnds ==
    /\ mm.isUpdating
    /\ mm' = [mm EXCEPT !.isUpdating = FALSE]
    /\ UNCHANGED <<pnl, today, obs, rec, led, qt>>

NextThrottle ==
    \/ ThrottleRefPrice
    \/ ThrottleTimerExpired
    \/ ThrottleWaitOver
    \/ ThrottleTickEnds

\* an armed timer expires and a tick in flight ends; whether another reference
\* price arrives is up to the feed
SpecThrottle ==
    /\ InitThrottle /\ [][NextThrottle]_vars
    /\ WF_vars(ThrottleTimerExpired) /\ WF_vars(ThrottleWaitOver) /\ WF_vars(ThrottleTickEnds)

\* C24: whenever the guard drops an invocation of executeUpdate, a tick with
\* a fair price at least as recent passes the guard later, whether or not
\* another reference price arrives.
C24_DroppedTickReissued ==
    \A n \in 1..MaxEvents :
        (mm.phase = "throttle" /\ mm.dropped = n)
            ~> (mm.phase = "throttle" /\ mm.lastFairPrice >= n)


(***************************************************************************)
(* SpecFair: the offset-median fair price calculator.                      *)
(*                                                                         *)
(* Time is counted in slots of SAMPLE_INTERVAL_MS.  The ring buffer and    *)
(* the window are scaled down together (FairCapacity slots of buffer,      *)
(* FairWindowSlots < FairCapacity slots of window, as 2500 and 600 to 900  *)
(* in the shipped configurations), so that the buffer wraps within a few   *)
(* samples.                                                                *)
(*                                                                         *)
(* led.samples   the array of the ring buffer, indices 0..FairCapacity-1,  *)
(*               NoSample where nothing was written                        *)
(* led.head, led.count, led.lastSlot   the fields of the calculator        *)
(* led.now       Date.now() in slots                                       *)
(* led.recorded  every sample that addSample recorded (history)            *)
(* led.asked     the reference mid of a getFairPrice made since the last   *)
(*               clock step or addSample, 0: none                          *)
(* led.answer    what it returned: a rational or "null"                    *)
(***************************************************************************)
FairCapacity == 4
FairWindowSlots == 3
FairMinSamples == 2
MaxSlot == 6
LocalMids == {10, 13}
ReferenceMids == {10, 11}
NoSample == [offset |-> 0, slot |-> 0]

FairInit ==
    [ phase |-> "fair", samples |-> [i \in 0..(FairCapacity - 1) |-> NoSample],
      head |-> 0, count |-> 0, lastSlot |-> 0, now |-> 1, recorded |-> <<>>,
      asked |-> 0, answer |-> "null" ]

InitFair ==
    /\ pnl = PnlInit(0)
    /\ today = 0
    /\ obs = ObsInit
    /\ rec = RecIdle
    /\ mm = MMIdle
    /\ qt = QtIdle
    /\ led = FairInit

\* addSample(localMid, referenceMid) at the current slot
addSample(c, localMid, referenceMid) ==
    IF c.now <= c.lastSlot THEN c
    ELSE LET sample == [offset |-> localMid - referenceMid, slot |-> c.now]
         IN  [c EXCEPT !.lastSlot = c.now,
                       !.samples[c.head] = sample,
                       !.head = (c.head + 1) % FairCapacity,
                       !.count = IF c.count < FairCapacity THEN c.count + 1 ELSE c.count,
                       !.recorded = Append(@, sample)]

\* getValidSamples: the samples newer than the cutoff slot, in array order
getValidSamples(c) ==
    LET cutoffSlot == c.now - FairWindowSlots
        RECURSIVE from(_)
        from(i) == IF i >= c.count THEN <<>>
                   ELSE (IF c.samples[i].slot > cutoffSlot THEN <<c.samples[i]>> ELSE <<>>)
                        \o from(i + 1)
    IN  from(0)

\* a median that takes the upper middle value of an even count
medianOf_UpperMiddle(offsets) ==
    LET sorted == SortSeq(offsets, <)
        mid == Len(sorted) \div 2
    IN  <<sorted[mid + 1], 1>>

\* offsets.sort(), then the middle value or the mean of the two middle values
medianOf(offsets) ==
    LET sorted == SortSeq(offsets, <)
        mid == Len(sorted) \div 2
    IN  IF Len(sorted) % 2 = 0
        THEN RNorm(sorted[mid] + sorted[mid + 1], 2)
        ELSE <<sorted[mid + 1], 1>>

getMedianOffset(c) ==
    LET valid == getValidSamples(c)
    IN  IF Len(valid) < FairMinSamples THEN "null"
        ELSE medianOf([i \in 1..Len(valid) |-> valid[i].offset])

getFairPrice(c, referenceMid) ==
    LET offset == getMedianOffset(c)
    IN  IF offset = "null" THEN "null" ELSE RAdd(<<referenceMid, 1>>, offset)

\* Date.now() reaches the next slot
FairClock ==
    /\ led.now < MaxSlot
    /\ led' = [led EXCEPT !.now = @ + 1, !.asked = 0, !.answer = "null"]
    /\ UNCHANGED <<pnl, today, obs, rec, mm, qt>>

\* handleRefPrice / handleZoPrice with a pair of mids less than a second apart
FairAddSample ==
    /\ \E localMid \in LocalMids, referenceMid \in ReferenceMids :
          led' = [addSample(led, localMid, referenceMid) EXCEPT
                     !.asked = 0, !.answer = "null"]
    /\ UNCHANGED <<pnl, today, obs, rec, mm, qt>>

FairGetFairPrice ==
    /\ \E referenceMid \in ReferenceMids :
          led' = [led EXCEPT !.asked = referenceMid,
                             !.answer = getFairPrice(led, referenceMid)]
    /\ UNCHANGED <<pnl, today, obs, rec, mm, qt>>

NextFair ==
    \/ FairClock
    \/ FairAddSample
    \/ FairGetFairPrice

SpecFair == InitFair /\ [][NextFair]_vars


\* the recorded samples inside the window, from the history of addSample
InWindow(c) == SelectSeq(c.recorded, LAMBDA x : x.slot > c.now - FairWindowSlots)

\* the value of rank k (1: smallest) among the offsets of a sample sequence
OffsetOfRank(win, k) ==
    CHOOSE x \in {win[i].offset : i \in 1..Len(win)} :
        /\ Cardinality({i \in 1..Len(win) : win[i].offset < x}) <= k - 1
        /\ Cardinality({i \in 1..Len(win) : win[i].offset > x}) <= Len(win) - k

\* C25: getFairPrice(R) returns null while fewer than minSamples recorded
\* samples lie inside the window; otherwise it returns R plus the median of
\* their offsets, the mean of the two middle values for an even count; when
\* all of them equal b it returns R + b.
C25_FairPriceMedian ==
    (led.phase = "fair" /\ led.asked # 0) =>
      LET win == InWindow(led)
          n == Len(win)
      IN  IF n < FairMinSamples
          THEN led.answer = "null"
          ELSE /\ led.answer # "null"
               /\ led.answer = RNorm(2 * led.asked + OffsetOfRank(win, (n + 1) \div 2)
                                         + OffsetOfRank(win, n \div 2 + 1), 2)
               /\ \A b \in -10..10 :
                     (\A i \in 1..n : win[i].offset = b) => led.answer = <<led.asked + b, 1>>

\* asked after the ring buffer wrapped around, with an even number of samples
\* in the window whose two middle offsets differ
C25_Witness ==
    /\ led.phase = "fair" /\ led.asked # 0
    /\ Len(led.recorded) > FairCapacity
    /\ Len(InWindow(led)) = 2
    /\ InWindow(led)[1].offset # InWindow(led)[2].offset
    /\ led.answer # "null"


\* C26: the quoting context of a tick allows both sides exactly when
\* |baseSize x fairPrice| < closeThresholdUsd; otherwise it allows only the
\* ask when baseSize > 0 and only the bid when baseSize < 0.
C26_AllowedSides ==
    (led.phase = "on" /\ led.ctx # NoCtx) =>
      LET sides == Range(led.ctx.allowedSides)
          exposure == Abs(led.baseSize * led.lastFairPrice)
      IN  /\ sides = {"bid", "ask"} <=> exposure < closeThresholdUsd
          /\ exposure >= closeThresholdUsd =>
                /\ led.baseSize > 0 => sides = {"ask"}
                /\ led.baseSize < 0 => sides = {"bid"}

\* a tick in close mode with a short position
C26_Witness ==
    /\ led.phase = "on" /\ led.ctx # NoCtx
    /\ led.baseSize < 0
    /\ Abs(led.baseSize * led.lastFairPrice) >= closeThresholdUsd
    /\ led.ctx.allowedSides = <<"bid">>


(***************************************************************************)
(* SpecVol: the volatility tracker.                                        *)
(*                                                                         *)
(* Time is counted in seconds.  The ring buffer and the window are scaled  *)
(* down together (VolCapacity samples of buffer, a window of               *)
(* VolWindowSeconds < VolCapacity, as 300 and 45 to 60 in the shipped      *)
(* configurations), so that the buffer wraps within a few samples.         *)
(* Math.sqrt is not computed: a volatility is held as its square.          *)
(*                                                                         *)
(* qt.prices, qt.timestamps   the arrays of the ring buffer, indices       *)
(*                            0..VolCapacity-1, 0 where nothing was written*)
(* qt.head, qt.count, qt.lastSecond   the fields of the tracker            *)
(* qt.now        Date.now() in seconds                                     *)
(* qt.recorded   every sample that addPrice recorded (history)             *)
(* qt.asked      getVolatilityBps ran since the last clock step or sample  *)
(* qt.answer     what it returned: [squared |-> variance] or "null"        *)
(***************************************************************************)
VolCapacity == 4
VolWindowSeconds == 3
VolMinSamples == 2
MaxSecond == 7
Mids == {4, 5}

VolInit ==
    [ phase |-> "vol", prices |-> [i \in 0..(VolCapacity - 1) |-> 0],
      timestamps |-> [i \in 0..(VolCapacity - 1) |-> 0], head |-> 0, count |-> 0,
      lastSecond |-> 0, now |-> 1, recorded |-> <<>>, asked |-> FALSE, answer |-> "null" ]

InitVol ==
    /\ pnl = PnlInit(0)
    /\ today = 0
    /\ obs = ObsInit
    /\ rec = RecIdle
    /\ mm = MMIdle
    /\ led = LedIdle
    /\ qt = VolInit

\* addPrice(mid) at the current second
addPrice(v, mid) ==
    IF v.now <= v.lastSecond THEN v
    ELSE [v EXCEPT !.lastSecond = v.now,
                   !.prices[v.head] = mid,
                   !.timestamps[v.head] = v.now,
                   !.head = (v.head + 1) % VolCapacity,
                   !.count = IF v.count < VolCapacity THEN v.count + 1 ELSE v.count,
                   !.recorded = Append(@, [second |-> v.now, mid |-> mid])]

\* the returns in basis points between the consecutive prices of a sequence
RECURSIVE returnsOf(_)
returnsOf(validPrices) ==
    IF Len(validPrices) < 2 THEN <<>>
    ELSE (IF validPrices[1] > 0
          THEN <<RNorm((validPrices[2] - validPrices[1]) * 10000, validPrices[1])>>
          ELSE <<>>)
         \o returnsOf(Tail(validPrices))

\* getReturns, first loop: the prices newer than the cutoff, in array order
validPricesOf(v) ==
    LET cutoff == v.now - VolWindowSeconds
        RECURSIVE from(_)
        from(i) == IF i >= v.count THEN <<>>
                   ELSE (IF v.timestamps[i] > cutoff THEN <<v.prices[i]>> ELSE <<>>)
                        \o from(i + 1)
    IN  from(0)

getReturns(v) == returnsOf(validPricesOf(v))

RECURSIVE SumOf(_)
SumOf(rs) == IF rs = <<>> THEN <<0, 1>> ELSE RAdd(Head(rs), SumOf(Tail(rs)))

\* the Bessel-corrected variance of at least two returns
varianceOf(returns) ==
    LET n == Len(returns)
        mean == RDivInt(SumOf(returns), n)
        squares == [i \in 1..n |-> RMul(RSub(returns[i], mean), RSub(returns[i], mean))]
    IN  RDivInt(SumOf(squares), n - 1)

getVolatilityBps(v) ==
    LET returns == getReturns(v)
    IN  IF Len(returns) < VolMinSamples THEN "null"
        ELSE [squared |-> varianceOf(returns)]

\* Date.now() reaches the next second
VolClock ==
    /\ qt.now < MaxSecond
    /\ qt' = [qt EXCEPT !.now = @ + 1, !.asked = FALSE, !.answer = "null"]
    /\ UNCHANGED <<pnl, today, obs, rec, mm, led>>

\* handleRefPrice feeds the tracker
VolAddPrice ==
    /\ \E mid \in Mids :
          qt' = [addPrice(qt, mid) EXCEPT !.asked = FALSE, !.answer = "null"]
    /\ UNCHANGED <<pnl, today, obs, rec, mm, led>>

\* a tick reads the volatility
VolGetVolatility ==
    /\ qt' = [qt EXCEPT !.asked = TRUE, !.answer = getVolatilityBps(qt)]
    /\ UNCHANGED <<pnl, today, obs, rec, mm, led>>

NextVol ==
    \/ VolClock
    \/ VolAddPrice
    \/ VolGetVolatility

SpecVol == InitVol /\ [][NextVol]_vars

\* C27: getVolatilityBps equals the Bessel-corrected standard deviation of
\* the returns between the chronologically consecutive samples inside the
\* window (null while there are fewer than minSamples of them), for every
\* sequence of addPrice calls, also after the ring buffer wrapped around.
C27_ChronologicalReturns ==
    (qt.phase = "vol" /\ qt.asked) =>
      LET win == SelectSeq(qt.recorded, LAMBDA x : x.second > qt.now - VolWindowSeconds)
          chronological == returnsOf([i \in 1..Len(win) |-> win[i].mid])
      IN  qt.answer = IF Len(chronological) < VolMinSamples THEN "null"
                      ELSE [squared |-> varianceOf(chronological)]


\* C29: a tick whose reconcile returns with hadChunkErrors = TRUE, or throws
\* an error that is neither a margin error nor a post-only error, has started
\* an order sync when it ends; a tick whose reconcile throws a margin error
\* (OMF, RISK_TRADE, margin) or a post-only error (POST_ONLY, MUST_NOT_FILL)
\* has started none and its order cache is what it was before the tick.
C29_TickExceptionPolicy ==
    rec.phase = "atomic" =>
      /\ (rec.pc = "returned" /\ rec.hadChunkErrors) => rec.syncsStarted >= 1
      /\ rec.pc = "thrown" =>
            LET e == rec.errs[Len(rec.errs)]
            IN  IF \/ "OMF" \in e \/ "RISK_TRADE" \in e \/ "margin" \in e
                   \/ "POST_ONLY" \in e \/ "MUST_NOT_FILL" \in e
                THEN rec.syncsStarted = 0 /\ rec.activeOrders = rec.current
                ELSE rec.syncsStarted >= 1

\* the first chunk, with a cancel, was executed and the second was rejected
\* for margin: no sync, and the cache still holds the cancelled order
C29_Witness ==
    /\ rec.phase = "atomic" /\ rec.pc = "thrown"
    /\ Len(rec.errs) = 2 /\ rec.errs[1] = NoError /\ rec.errs[2] = {"OMF"}
    /\ cancelIdsOf(rec.chunks[1]) # {}
    /\ rec.syncsStarted = 0
    /\ rec.activeOrders = rec.current


\* C30: marginRejections goes up by exactly one when the reconcile of a tick
\* throws an error whose message contains OMF, RISK_TRADE or margin, is 0
\* after a reconcile that returned without throwing, and is unchanged by
\* every other step (a tick that ends before the reconcile, another error);
\* its value is the number of margin rejections since the last reconcile
\* that returned.
C30_MarginRejectionCounter ==
    [][qt.phase = "on" =>
         /\ IF qt.isUpdating /\ ~qt'.isUpdating
            THEN LET e == qt'.outcome
                 IN  IF e = NoError THEN qt'.marginRejections = 0
                     ELSE IF "OMF" \in e \/ "RISK_TRADE" \in e \/ "margin" \in e
                     THEN qt'.marginRejections = qt.marginRejections + 1
                     ELSE qt'.marginRejections = qt.marginRejections
            ELSE qt'.marginRejections = qt.marginRejections
         /\ qt'.marginRejections = qt'.streak]_vars

\* two margin rejections and then an error of another kind, with no reconcile
\* that returned in between
C30_Witness ==
    /\ qt.phase = "on"
    /\ qt.marginRejections = 2 /\ qt.streak = 2
    /\ qt.outcome = {}


\* ---------------------------------------------------------------------------
\* Closing fills (SpecPnl)
\* ---------------------------------------------------------------------------

\* what a fill against the open position must leave, stated from the
\* arithmetic alone: closing = min(size, |positionBase|)
ClosingOf(p, size) == IF size < Abs(p.positionBase) THEN size ELSE Abs(p.positionBase)

\* C33: for a fill against the open position, closing = min(size,
\* |positionBase|); realized moves by closing x (price - avgEntry) when long
\* and closing x (avgEntry - price) when short; the position moves toward
\* zero by closing with costBasis = |positionBase| x avgEntry; a remainder
\* size - closing opens the opposite position at the fill price with
\* costBasis = |new position| x price.
C33_ClosingFill ==
    [][\A side \in {"buy", "sell"}, price \in Prices, size \in Sizes :
         ( /\ obs'.lastOp = "applyFill" /\ obs'.lastFair = price
           /\ pnl.positionBase # 0
           /\ (side = "sell") = (pnl.positionBase > 0)
           /\ pnl'.tradeCount = pnl.tradeCount + 1
           /\ pnl' = applyFill(pnl, today, side, price, size) )
         => LET pos == pnl.positionBase
                avg == RDivInt(pnl.costBasis, Abs(pos))
                closing == ClosingOf(pnl, size)
                rest == size - closing
                toward == IF pos > 0 THEN pos - closing ELSE pos + closing
            IN  /\ RSub(pnl'.realizedPnl, pnl.realizedPnl) =
                      (IF pos > 0 THEN RMul(R(closing), RSub(R(price), avg))
                                  ELSE RMul(R(closing), RSub(avg, R(price))))
                /\ rest = 0 => /\ pnl'.positionBase = toward
                               /\ pnl'.costBasis = RMul(R(Abs(toward)), avg)
                /\ rest > 0 => /\ pnl'.positionBase = (IF pos > 0 THEN -rest ELSE rest)
                               /\ pnl'.costBasis = R(rest * price)
    ]_vars

\* long 1 at entry 1, then a sell of 2 at 3: realized 2, position -1,
\* cost basis 3
C33_Witness ==
    /\ obs.lastOp = "applyFill" /\ obs.onlyFills /\ obs.crossed
    /\ pnl.tradeCount = 2 /\ pnl.positionBase = -1
    /\ pnl.costBasis = R(3) /\ pnl.realizedPnl = R(2)


\* ---------------------------------------------------------------------------
\* Seeding of the PnL ledger (SpecLed)
\* ---------------------------------------------------------------------------

\* C34: the PnL ledger is seeded exactly once, by the first tick that
\* executes with a fair price F: right after seeding positionBase equals the
\* venue position read at startup, costBasis = |positionBase| x F and the
\* unrealized PnL at F is 0; no later tick seeds again (the flag stays set
\* and a step that is not a fill leaves position and cost basis alone).
C34_SeededOnce ==
    [][ /\ (led.lastFairPrice = 0 /\ led'.lastFairPrice # 0) =>
              /\ ~led.pnlSeeded /\ led'.pnlSeeded /\ led'.last = "seeded"
              /\ pnl'.positionBase = led.initialExchangePosition
              /\ pnl'.costBasis = R(Abs(pnl'.positionBase) * led'.lastFairPrice)
              /\ calcUnrealizedPnl(pnl', led'.lastFairPrice) = R(0)
        /\ led.pnlSeeded =>
              /\ led'.pnlSeeded /\ led'.last # "seeded"
              /\ pnl'.tradeCount = pnl.tradeCount =>
                    /\ pnl'.positionBase = pnl.positionBase
                    /\ pnl'.costBasis = pnl.costBasis
        /\ led'.pnlSeeded = (led'.lastFairPrice # 0)
      ]_vars

\* the first tick has just seeded a long position at fair price 3
C34_Witness ==
    /\ led.last = "seeded" /\ led.pnlSeeded
    /\ led.initialExchangePosition = 1 /\ led.lastFairPrice = 3
    /\ pnl.positionBase = 1 /\ pnl.costBasis = R(3)

\* C40: fills applied to the PnL ledger before it is seeded are not lost by
\* seeding: right after the first tick seeds the ledger, the PnL ledger's
\* positionBase equals the position ledger's baseSize, for every number of
\* fills between startup and that tick (the venue's position has not moved
\* otherwise).
C40_SeedKeepsFills ==
    (led.last = "seeded" /\ led.drifts = 0) => pnl.positionBase = led.baseSize


\* ---------------------------------------------------------------------------
\* A reconcile that rethrows after an earlier chunk succeeded (SpecAtomic)
\* ---------------------------------------------------------------------------

\* the orders that the executed chunks of the reconcile posted on the venue
PostedByChunks(r) == UNION {Range(r.placed[i]) : i \in 1..Len(r.placed)}
\* the ids that the executed chunks of the reconcile cancelled
CancelledByChunks(r) ==
    UNION {cancelIdsOf(r.chunks[i]) : i \in {j \in 1..Len(r.errs) : r.errs[j] = NoError}}

\* C36: if a reconcile rethrows an error after an earlier chunk of the same
\* reconcile succeeded, then when the tick is over the cancels and the
\* placements of the earlier chunks are reflected in the order cache, or an
\* order sync has been started: no order placed by the bot rests on the
\* venue yet is absent from the cache that the next tick diffs against.
C36_EarlierChunksReflected ==
    ( /\ rec.phase = "atomic" /\ rec.pc = "thrown"
      /\ \E i \in 1..Len(rec.errs) : rec.errs[i] = NoError )
    => \/ rec.syncsStarted >= 1
       \/ /\ PostedByChunks(rec) \subseteq Range(rec.activeOrders)
          /\ \A o \in Range(rec.activeOrders) : o.orderId \notin CancelledByChunks(rec)


\* ---------------------------------------------------------------------------
\* Writers of the order cache that overlap (SpecCache)
\* ---------------------------------------------------------------------------

IdsOf(orders) == {o.orderId : o \in Range(orders)}

\* C37: a reconcile that was in flight while an order sync replaced the
\* cache does not overwrite the synced cache with entries of its pre-sync
\* snapshot: after the reconcile returns, the cache contains no order id
\* that the sync had found absent from the venue.  While a reconcile is
\* suspended the cache is written by order syncs (the venue's snapshot) and
\* by cancel-all and shutdown (the empty list) only, so a non-empty cache
\* that lacks an order the reconcile kept is the snapshot of a sync that
\* found that order absent.
C37_ReconcileKeepsSyncedCache ==
    [][\A c \in Ticks :
         ( /\ mm.phase = "on"
           /\ mm.calls[c].pc # "idle" /\ mm'.calls[c].pc = "idle"
           /\ mm.activeOrders # <<>> )
         => \A o \in Range(mm.calls[c].keptOrders) :
               o.orderId \notin IdsOf(mm.activeOrders)
                   => o.orderId \notin IdsOf(mm'.activeOrders)
    ]_vars

\* C38: when an asynchronous cancel-all completes, with or without an
\* error, it removes from the cache only the orders it was issued for: an
\* order that rests on the venue and is in the cache when it completes, and
\* that it was not issued for (a reconcile or an order sync recorded it after
\* the cancel-all was issued), is still in the cache afterwards.  A cancel-all of at most
\* MAX_ATOMIC_ACTIONS orders is one chunk, so the cancels of the call in
\* flight are all the orders it was issued for.
C38_CancelAllRemovesOwnOrders ==
    [][\A c \in CancelAlls :
         ( /\ mm.phase = "on"
           /\ mm.calls[c].pc # "idle" /\ mm'.calls[c].pc = "idle" )
         => \A o \in Range(mm.activeOrders) \cap mm.venue :
               o.orderId \notin cancelIdsOf(mm.calls[c].actions)
                   => o \in Range(mm'.activeOrders)
    ]_vars


(***************************************************************************)
(* SpecCache: the writers of the order cache, with one order per side.     *)
(*                                                                         *)
(* The MarketMaker of SpecMM without shutdown, status task and date, with  *)
(* a quoter configured for one level (at most one bid and one ask per      *)
(* tick) and a venue whose fetchInfo always answers.  The actions are      *)
(* those of SpecMM; the tick draws its quotes from CacheQuoteSets.         *)
(*                                                                         *)
(* mm.quiet          from here on no fill arrives and no tick submits an   *)
(*                   action (history)                                      *)
(* mm.settled        how far a quiet market has come: 1 the order syncs in *)
(*                   flight when it went quiet have completed, 2 a further *)
(*                   order sync has fetched, 3 that sync has resumed       *)
(*                   (history)                                             *)
(***************************************************************************)

\* levels of the quoter configuration
Levels == 1
\* order ids the venue hands out in one behaviour of SpecCache
CacheMaxOrderId == 3

\* the fair price of the ticks
CacheFairPrices == {1}

\* what a quoter with one level can hand to a tick
CacheQuoteSets ==
    { <<Quote("bid", 1, 2)>>, <<Quote("ask", 3, 2)>>,
      <<Quote("bid", 1, 2), Quote("ask", 3, 2)>> }

InitCache ==
    /\ pnl = PnlInit(0)
    /\ today = 0
    /\ obs = ObsInit
    /\ rec = RecIdle
    /\ led = LedIdle
    /\ qt = QtIdle
    /\ mm = [quiet |-> FALSE, settled |-> 0] @@ MMInit

\* a fair price arrives and the tick runs; once quiet, a tick has nothing to
\* submit
CacheTick ==
    /\ mm.running
    /\ IdleOf(Ticks, mm) # {}
    /\ \E fairPrice \in CacheFairPrices, quotes \in CacheQuoteSets :
          /\ mm.nextId + Len(quotesToPlaceOf(mm.activeOrders, quotes)) - 1 <= CacheMaxOrderId
          /\ executeUpdate(fairPrice, quotes)
          /\ mm.quiet => mm'.calls = mm.calls
    /\ UNCHANGED <<today, obs, rec, led, qt>>

CacheFill == ~mm.quiet /\ OnFill

SyncsIdle == \A k \in Syncs : mm.syncs[k].pc = "idle"
SyncFetched == \E k \in Syncs : mm.syncs[k].pc = "answered"

\* the market goes quiet
CacheQuiet ==
    /\ ~mm.quiet
    /\ mm' = [mm EXCEPT !.quiet = TRUE]
    /\ UNCHANGED <<pnl, today, obs, rec, led, qt>>

\* the history of a quiet market: 1 once the order syncs in flight when it
\* went quiet have completed, 2 once a further order sync has fetched, 3 once
\* that sync has resumed and replaced the cache
CacheSettle ==
    /\ mm.phase = "on"
    /\ mm.quiet
    /\ \/ mm.settled = 0 /\ SyncsIdle
       \/ mm.settled = 1 /\ SyncFetched
       \/ mm.settled = 2 /\ SyncsIdle
    /\ mm' = [mm EXCEPT !.settled = @ + 1]
    /\ UNCHANGED <<pnl, today, obs, rec, led, qt>>

NextCache ==
    \/ CacheTick
    \/ \E c \in Ticks \cup CancelAlls : VenueAccept(c)
    \/ \E c \in Ticks : TickChunkOk(c)
    \/ \E c \in Ticks : TickChunkRecovered(c)
    \/ \E c \in Ticks : TickChunkThrown(c)
    \/ SyncOrders
    \/ \E k \in Syncs : VenueFetch(k)
    \/ \E k \in Syncs : SyncApply(k)
    \/ CacheFill
    \/ \E c \in CancelAlls : CancelAllChunkOk(c)
    \/ \E c \in CancelAlls : CancelAllChunkRecovered(c)
    \/ \E c \in CancelAlls : CancelAllChunkThrown(c)
    \/ CacheQuiet
    \/ CacheSettle

SpecCache == InitCache /\ [][NextCache]_vars

\* C35: after any sequence of ticks, fills, order syncs and chunk failures
\* the order cache holds at most 2 x levels orders.
C35_CacheBounded ==
    mm.phase = "on" => Len(mm.activeOrders) <= 2 * Levels


CacheIsVenue ==
    /\ Range(mm.activeOrders) = mm.venue
    /\ Len(mm.activeOrders) = Cardinality(mm.venue)

\* no reconcile and no cancel-all awaits the venue
CallsIdle == \A c \in Ticks \cup CancelAlls : mm.calls[c].pc = "idle"

\* C31: if from some point on no fill arrives and no tick submits an action,
\* then after the order syncs in flight at that point have completed and one
\* further order sync has succeeded (it has fetched and has resumed), the
\* cache equals the venue's open orders, and it stays equal from then on.
\* The cache is compared whenever no request submitted before that point is
\* still awaiting the venue.
C31_CacheEventuallyConsistent ==
    (mm.settled = 3 /\ CallsIdle) => CacheIsVenue


(***************************************************************************)
(* SpecSync: the two sync loops with their retries.                        *)
(*                                                                         *)
(* The position sync loop of SpecLed (led) runs against the venue's        *)
(* position, which drifts; the order sync of SpecMM (mm) runs against the  *)
(* venue's open orders, which fills and the cancel-all of the fill handler *)
(* take away.  Every fetchInfo is answered or fails.  The behaviour starts *)
(* after the first reconcile has placed a bid and an ask.  A cancel-all is *)
(* issued by the fill handler for a cache that still lists the filled      *)
(* order, so the venue never executes it: it fails.                        *)
(***************************************************************************)

\* the orders resting after the first reconcile
SyncStartOrders == CacheOf(<<Quote("bid", 1, 2), Quote("ask", 3, 2)>>)

InitSync ==
    /\ pnl = PnlInit(0)
    /\ today = 0
    /\ obs = ObsInit
    /\ rec = RecIdle
    /\ qt = QtIdle
    /\ mm = [MMInit EXCEPT !.venue = Range(SyncStartOrders),
                           !.activeOrders = SyncStartOrders,
                           !.nextId = Len(SyncStartOrders) + 1,
                           !.lastFairPrice = 1, !.pnlSeeded = TRUE]
    /\ \E p0 \in InitialPositions :
          led = [ phase |-> "on", serverPos |-> p0, baseSize |-> p0,
                  initialExchangePosition |-> p0, pnlSeeded |-> TRUE,
                  lastFairPrice |-> 1, sync |-> LedSyncIdle, drifts |-> 0,
                  last |-> "none", lastTick |-> "none", ctx |-> NoCtx ]

NextSync ==
    \/ LedDrift
    \/ LedSyncStart
    \/ LedSyncFetch
    \/ LedSyncApply
    \/ LedSyncFetchFails
    \/ SyncOrders
    \/ \E k \in Syncs : VenueFetch(k)
    \/ \E k \in Syncs : SyncApply(k)
    \/ \E k \in Syncs : SyncFetchFails(k)
    \/ OnFill
    \/ \E c \in CancelAlls : CancelAllChunkRecovered(c)
    \/ \E c \in CancelAlls : CancelAllChunkThrown(c)

SpecSync == InitSync /\ [][NextSync]_vars


\* the backoffs between the four attempts, in ms
ClaimedBackoffs == <<500, 1000, 2000>>

\* a sync call in flight has made at most 4 fetch attempts and has slept the
\* claimed backoffs between them
WithinRetryBound(sync) ==
    /\ sync.attempt <= 3
    /\ sync.slept = SubSeq(ClaimedBackoffs, 1, sync.attempt)

\* a fetch of the call failed in this step: the call fetches again after
\* its backoff, or it has made its fourth attempt and ends
FetchFailed(sync, syncAfter) ==
    /\ sync.pc = "sent" /\ syncAfter.pc \in {"sent", "idle"} /\ syncAfter # sync

RetriesOrEnds(sync, syncAfter) ==
    IF sync.attempt < 3
    THEN syncAfter.pc = "sent" /\ syncAfter.attempt = sync.attempt + 1
    ELSE syncAfter.pc = "idle"

\* C32: every position sync and every order sync makes at most 4 fetch
\* attempts, separated by backoffs of 500, 1000 and 2000 ms, and then ends;
\* a failed attempt, the last one included, leaves baseSize (position sync)
\* or the order cache (order sync) as it was.
C32_BoundedSyncRetry ==
    /\ []( /\ WithinRetryBound(led.sync)
           /\ \A k \in Syncs : WithinRetryBound(mm.syncs[k]) )
    /\ [][ /\ FetchFailed(led.sync, led'.sync) =>
                /\ RetriesOrEnds(led.sync, led'.sync)
                /\ led'.baseSize = led.baseSize
           /\ \A k \in Syncs :
                FetchFailed(mm.syncs[k], mm'.syncs[k]) =>
                    /\ RetriesOrEnds(mm.syncs[k], mm'.syncs[k])
                    /\ mm'.activeOrders = mm.activeOrders
         ]_vars

\* the position sync has given up with baseSize still off the venue's
\* position, and an order sync is in its fourth attempt, after the three
\* backoffs, with the cache still listing a filled order
C32_Witness ==
    /\ led.last = "gaveUp" /\ led.sync.pc = "idle"
    /\ led.baseSize # led.serverPos
    /\ \E k \in Syncs :
          /\ mm.syncs[k].pc = "sent" /\ mm.syncs[k].attempt = 3
          /\ mm.syncs[k].slept = <<500, 1000, 2000>>
    /\ Range(mm.activeOrders) # mm.venue


(***************************************************************************)
(* SpecOverlap: order syncs that overlap.                                  *)
(*                                                                         *)
(* forceOrderSync and the orderSyncInterval timer start a                  *)
(* syncOrdersWithRetry call whether or not another one is in flight.       *)
(* SpecOverlap is the order sync of SpecMM with up to MaxOverlap calls in  *)
(* flight, against a venue whose open orders fills and the cancel-all of   *)
(* the fill handler take away; no tick places an order.  The behaviour     *)
(* starts after the first reconcile has placed a bid and an ask.  A        *)
(* cancel-all is issued for a cache that still lists the filled order, so  *)
(* the venue never executes it: it fails.                                  *)
(***************************************************************************)

\* syncOrdersWithRetry calls in flight at a time
MaxOverlap == 2
SyncSlots == 1..MaxOverlap

InitOverlap ==
    /\ pnl = PnlInit(0)
    /\ today = 0
    /\ obs = ObsInit
    /\ rec = RecIdle
    /\ led = LedIdle
    /\ qt = QtIdle
    /\ mm = [MMInit EXCEPT !.venue = Range(SyncStartOrders),
                           !.activeOrders = SyncStartOrders,
                           !.nextId = Len(SyncStartOrders) + 1,
                           !.lastFairPrice = 1, !.pnlSeeded = TRUE,
                           !.syncs = [k \in SyncSlots |-> IdleSync]]

NextOverlap ==
    \/ SyncOrders
    \/ \E k \in SyncSlots : VenueFetch(k)
    \/ \E k \in SyncSlots : SyncApply(k)
    \/ \E k \in SyncSlots : SyncFetchFails(k)
    \/ OnFill
    \/ \E c \in CancelAlls : CancelAllChunkRecovered(c)
    \/ \E c \in CancelAlls : CancelAllChunkThrown(c)

SpecOverlap == InitOverlap /\ [][NextOverlap]_vars

\* C39: when two order syncs overlap, the cache left after both have
\* completed is the snapshot of the sync whose venue fetch happened last: an
\* older snapshot never overwrites a newer one.  In SpecOverlap the venue
\* only loses orders, and the cache is written by the syncs (a snapshot)
\* and by cancel-all (the empty list): a non-empty cache that lists fewer
\* orders than the snapshot of the sync that resumes is the snapshot of a
\* sync that fetched later and has completed.
C39_NewestSnapshotWins ==
    [][\A k \in SyncSlots :
         ( /\ mm.phase = "on"
           /\ mm.syncs[k].pc = "answered" /\ mm'.syncs[k].pc = "idle" )
         => ~( /\ mm.activeOrders # <<>>
               /\ IdsOf(mm.activeOrders) \subseteq IdsOf(mm.syncs[k].orders)
               /\ IdsOf(mm.activeOrders) # IdsOf(mm.syncs[k].orders)
               /\ mm'.activeOrders = mm.syncs[k].orders )
    ]_vars

====
